---- MODULE Spec2Model ----
(***************************************************************************)
(* Retrieval core of UNIFIED_AGENTIC_AI: CitationEngine, WebLoader, and    *)
(* the research Q&A and report pipelines built on them; and the Streamlit  *)
(* session with the pages that store their state in it.                    *)
(*                                                                         *)
(* Strings are sequences of one-character strings, so that length,         *)
(* slicing, splitting, stripping and substring search are computed.        *)
(* Python's None, where a str may stand, is the one-element sequence None; *)
(* an Optional list or object is a set with at most one element.          *)
(***************************************************************************)
EXTENDS Integers, Sequences, FiniteSets, TLC

\* a str read character by character
S(str) == [i \in 1..Len(str) |-> SubSeq(str, i, i)]

\* None in the place of an Optional[str]
None == <<"None">>

\* Optional[T] for lists and objects: {} is None, {x} is the value x
Nothing == {}
Some(x) == {x}
The(opt) == CHOOSE x \in opt : TRUE

(***************************************************************************)
(* Bounds of the model.                                                    *)
(***************************************************************************)
\* number of add_citation calls made on one engine between two resets
MaxCalls == 3
\* length of the texts given to chunk_text
MaxTextLen == 6
\* largest chunk_size a WebLoader is constructed with, beside the default
MaxChunkSize == 3
\* length of the list given to load_urls
MaxUrls == 3
\* number of URLs given to one invocation of a graph
MaxQaUrls == 2
\* number of chunks retrieve_relevant_info ranks
MaxChunks == 6

(***************************************************************************)
(* Generic helpers.                                                        *)
(***************************************************************************)
Range(s) == {s[i] : i \in 1..Len(s)}

Min(a, b) == IF a <= b THEN a ELSE b

\* All sequences over S of length 0..n
SeqsUpTo(A, n) == UNION {[1..k -> A] : k \in 0..n}

(***************************************************************************)
(* Python str operations on character sequences.                           *)
(***************************************************************************)
Whitespace == {" ", "\n", "\t"}

IsSpace(c) == c \in Whitespace

\* str.strip()
strip(s) ==
    LET keep == {i \in 1..Len(s) : ~IsSpace(s[i])}
    IN IF keep = {} THEN <<>>
       ELSE SubSeq(s, CHOOSE i \in keep : \A j \in keep : i <= j,
                      CHOOSE i \in keep : \A j \in keep : i >= j)

UpperLetters == S("ABCDEFGHIJKLMNOPQRSTUVWXYZ")
LowerLetters == S("abcdefghijklmnopqrstuvwxyz")

LowerChar(c) ==
    IF \E i \in 1..Len(UpperLetters) : UpperLetters[i] = c
    THEN LowerLetters[CHOOSE i \in 1..Len(UpperLetters) : UpperLetters[i] = c]
    ELSE c

\* str.lower()
lower(s) == [i \in 1..Len(s) |-> LowerChar(s[i])]

\* s[:n]
Slice(s, n) == SubSeq(s, 1, Min(n, Len(s)))

\* s[i:]
From(s, i) == SubSeq(s, i, Len(s))

\* t occurs in s at position i
StartsAt(s, t, i) ==
    i + Len(t) - 1 <= Len(s) /\ SubSeq(s, i, i + Len(t) - 1) = t

\* `t in s` for two str: substring containment
Contains(s, t) == \E i \in 1..(Len(s) - Len(t) + 1) : StartsAt(s, t, i)

\* s.find(t) + 1, or 0 when t does not occur
Find(s, t) ==
    IF Contains(s, t)
    THEN CHOOSE i \in 1..(Len(s) - Len(t) + 1) :
            /\ StartsAt(s, t, i)
            /\ \A j \in 1..(i - 1) : ~StartsAt(s, t, j)
    ELSE 0

\* set(s.split()): the maximal runs of non-whitespace characters
WordSet(s) ==
    {SubSeq(s, i, j) : <<i, j>> \in
        {p \in (1..Len(s)) \X (1..Len(s)) :
            /\ p[1] <= p[2]
            /\ \A k \in p[1]..p[2] : ~IsSpace(s[k])
            /\ (p[1] = 1 \/ IsSpace(s[p[1] - 1]))
            /\ (p[2] = Len(s) \/ IsSpace(s[p[2] + 1]))}}

\* s.split(sep) for a non-empty sep: the pieces between the occurrences
RECURSIVE SplitOn(_, _)
SplitOn(s, sep) ==
    LET i == Find(s, sep)
    IN IF i = 0 THEN <<s>>
       ELSE <<SubSeq(s, 1, i - 1)>> \o SplitOn(From(s, i + Len(sep)), sep)

\* sep.join(parts)
RECURSIVE Join(_, _)
Join(parts, sep) ==
    IF parts = <<>> THEN <<>>
    ELSE IF Len(parts) = 1 THEN parts[1]
    ELSE parts[1] \o sep \o Join(Tail(parts), sep)

\* [x for x in seq if keep(x)]
RECURSIVE NonEmpty(_)
NonEmpty(parts) ==
    IF parts = <<>> THEN <<>>
    ELSE IF parts[1] = <<>> THEN NonEmpty(Tail(parts))
    ELSE <<parts[1]>> \o NonEmpty(Tail(parts))

(***************************************************************************)
(* Python dict with str keys: insertion-ordered <<key, value>> pairs.      *)
(***************************************************************************)
DictKeys(d) == {d[i][1] : i \in 1..Len(d)}

DictHas(d, k) == k \in DictKeys(d)

\* d[k]
DictGet(d, k) == d[CHOOSE i \in 1..Len(d) : d[i][1] = k][2]

\* d[k] = v
DictSet(d, k, v) ==
    IF DictHas(d, k)
    THEN [i \in 1..Len(d) |-> IF d[i][1] = k THEN <<k, v>> ELSE d[i]]
    ELSE Append(d, <<k, v>>)

(***************************************************************************)
(* WebLoader: the text splitter it is constructed with.                    *)
(* RecursiveCharacterTextSplitter(chunk_size, chunk_overlap, separators),  *)
(* with the library defaults keep_separator=True, strip_whitespace=True    *)
(* and length_function=len.  W is chunk_size, O is chunk_overlap.          *)
(***************************************************************************)
ChunkSizeDefault == 1000
ChunkOverlapDefault == 200

Separators == <<S("\n\n"), S("\n"), S(" "), <<>>>>

\* the split of the text at the separator; every piece but the first keeps
\* the separator in front of it; empty pieces are dropped
split_text_with_regex(text, sep) ==
    IF sep # <<>>
    THEN LET raw == SplitOn(text, sep)
         IN NonEmpty([i \in 1..Len(raw) |->
                        IF i = 1 THEN raw[1] ELSE sep \o raw[i]])
    ELSE [i \in 1..Len(text) |-> <<text[i]>>]

\* the joined pieces, stripped; None when nothing is left
join_docs(docs, sep) ==
    LET text == strip(Join(docs, sep))
    IN IF text = <<>> THEN None ELSE text

\* merge_splits: drop pieces from the front of the window until it is no
\* longer than the overlap and the next piece fits
RECURSIVE PopWindow(_, _, _, _, _, _)
PopWindow(cur, total, len, sl, W, O) ==
    IF \/ total > O
       \/ /\ total + len + (IF Len(cur) > 0 THEN sl ELSE 0) > W
          /\ total > 0
    THEN PopWindow(Tail(cur),
                   total - (Len(cur[1]) + (IF Len(cur) > 1 THEN sl ELSE 0)),
                   len, sl, W, O)
    ELSE [cur |-> cur, total |-> total]

\* merge_splits: one iteration of `for d in splits`
MergeStep(st, d, sep, W, O) ==
    LET len == Len(d)
        sl == Len(sep)
        emit == /\ st.total + len + (IF Len(st.cur) > 0 THEN sl ELSE 0) > W
                /\ Len(st.cur) > 0
        doc == join_docs(st.cur, sep)
        docs == IF emit /\ doc # None THEN Append(st.docs, doc) ELSE st.docs
        win == IF emit THEN PopWindow(st.cur, st.total, len, sl, W, O)
               ELSE [cur |-> st.cur, total |-> st.total]
        cur == Append(win.cur, d)
    IN [docs |-> docs, cur |-> cur,
        total |-> win.total + len + (IF Len(cur) > 1 THEN sl ELSE 0)]

RECURSIVE MergeLoop(_, _, _, _, _)
MergeLoop(st, splits, sep, W, O) ==
    IF splits = <<>> THEN st
    ELSE MergeLoop(MergeStep(st, splits[1], sep, W, O), Tail(splits), sep, W, O)

\* TextSplitter._merge_splits
merge_splits(splits, sep, W, O) ==
    LET st == MergeLoop([docs |-> <<>>, cur |-> <<>>, total |-> 0],
                        splits, sep, W, O)
        doc == join_docs(st.cur, sep)
    IN IF doc # None THEN Append(st.docs, doc) ELSE st.docs

RECURSIVE split_text_rec(_, _, _, _)
RECURSIVE WalkSplits(_, _, _, _, _, _)

\* RecursiveCharacterTextSplitter._split_text: `for s in splits`
WalkSplits(splits, good, final, new, W, O) ==
    IF splits = <<>>
    THEN IF good # <<>> THEN final \o merge_splits(good, <<>>, W, O) ELSE final
    ELSE LET s == splits[1]
         IN IF Len(s) < W
            THEN WalkSplits(Tail(splits), Append(good, s), final, new, W, O)
            ELSE LET flushed == IF good # <<>>
                                THEN final \o merge_splits(good, <<>>, W, O)
                                ELSE final
                     pieces == IF new = <<>> THEN <<s>>
                               ELSE split_text_rec(s, new, W, O)
                 IN WalkSplits(Tail(splits), <<>>, flushed \o pieces, new, W, O)

\* RecursiveCharacterTextSplitter._split_text: the first separator that is
\* empty or occurs in the text is used, the ones after it are left for the
\* pieces that are still too long
split_text_rec(text, seps, W, O) ==
    LET hits == {i \in 1..Len(seps) :
                    seps[i] = <<>> \/ Contains(text, seps[i])}
        i == IF hits = {} THEN Len(seps)
             ELSE CHOOSE h \in hits : \A g \in hits : h <= g
        new == IF hits = {} \/ seps[i] = <<>> THEN <<>> ELSE From(seps, i + 1)
    IN WalkSplits(split_text_with_regex(text, seps[i]), <<>>, <<>>, new, W, O)

\* self.text_splitter.split_text(text)
split_text(text, W, O) == split_text_rec(text, Separators, W, O)

(***************************************************************************)
(* WebLoader.chunk_text                                                    *)
(***************************************************************************)
\* the whole text as one chunk, whatever its length
chunk_text_whole(text, metadata, W, O) ==
    <<[content |-> text, metadata |-> metadata, chunk_index |-> 0]>>

chunk_text(text, metadata, W, O) ==
    LET chunks == split_text(text, W, O)
    IN [i \in 1..Len(chunks) |->
          [content |-> chunks[i], metadata |-> metadata, chunk_index |-> i - 1]]

(***************************************************************************)
(* WebLoader.parse_html.  An HTML document is the sequence of its          *)
(* elements, each a tag with its text; the tag "deep" stands for markup    *)
(* nested beyond the parser's recursion limit, on which the parser raises. *)
(***************************************************************************)
DropTags(html, tags) == SelectSeq(html, LAMBDA e : e.tag \notin tags)

WithTag(html, tag) == SelectSeq(html, LAMBDA e : e.tag = tag)

ParserRaises(html) == \E i \in 1..Len(html) : html[i].tag = "deep"

\* urlparse(url).netloc
netloc(url) ==
    LET colon == Find(url, <<":">>)
        rest == IF colon = 0 THEN url ELSE From(url, colon + 1)
        body == From(rest, 3)
        ends == {i \in 1..Len(body) : body[i] \in {"/", "?", "#"}}
    IN IF ~StartsAt(rest, S("//"), 1) THEN <<>>
       ELSE IF ends = {} THEN body
       ELSE SubSeq(body, 1, (CHOOSE i \in ends : \A j \in ends : i <= j) - 1)

\* soup.get_text(separator='\n', strip=True)
get_text(html) ==
    Join(NonEmpty([i \in 1..Len(html) |-> strip(html[i].text)]), <<"\n">>)

\* '\n'.join(line.strip() for line in text.split('\n') if line.strip())
CleanLines(text) ==
    LET lines == SplitOn(text, <<"\n">>)
    IN Join(NonEmpty([i \in 1..Len(lines) |-> strip(lines[i])]), <<"\n">>)

parse_html(html, url) ==
    IF ParserRaises(html)
    THEN [url |-> url, title |-> S("Unknown"), text |-> <<>>,
          domain |-> netloc(url)]
    ELSE LET soup == DropTags(html, {"script", "style"})
             titles == WithTag(soup, "title")
             h1s == WithTag(soup, "h1")
             title == IF titles # <<>>
                      THEN (IF titles[1].text = <<>> THEN None
                            ELSE titles[1].text)
                      ELSE IF h1s # <<>> THEN h1s[1].text
                      ELSE <<>>
             main == DropTags(soup, {"nav", "footer", "aside"})
         IN [url |-> url, title |-> title, text |-> CleanLines(get_text(main)),
             domain |-> netloc(url)]

(***************************************************************************)
(* WebLoader.fetch_url and WebLoader.load_urls.  The outcome of            *)
(* requests.get and raise_for_status is the environment's: it raises, or   *)
(* it yields response.text.                                                *)
(***************************************************************************)
\* fetch_url without its try/except
fetch_url_unguarded(outcome) ==
    IF outcome.kind = "raise"
    THEN [raised |-> TRUE, html |-> Nothing]
    ELSE [raised |-> FALSE, html |-> Some(outcome.html)]

\* the Optional[str] returned, and whether the call raised
fetch_url(outcome) ==
    IF outcome.kind = "raise"
    THEN [raised |-> FALSE, html |-> Nothing]
    ELSE [raised |-> FALSE, html |-> Some(outcome.html)]

\* `not url or not url.strip()`
IsBlank(url) == url = <<>> \/ strip(url) = <<>>

\* the entry as it is
UrlUnstripped(url) == url

\* url = url.strip()
UrlToFetch(url) == strip(url)

\* `if parsed["text"]:` with its body, the chunks labelled with the url
\* where the title belongs
StoreParsedMislabelled(st, url, parsed, W, O) ==
    IF parsed.text = <<>> THEN st
    ELSE [st EXCEPT
            !.loaded_content = DictSet(@, url, parsed),
            !.all_chunks = @ \o chunk_text(parsed.text,
                  [url |-> url, title |-> url,
                   domain |-> parsed.domain], W, O)]

\* `if parsed["text"]:` with its body
StoreParsed(st, url, parsed, W, O) ==
    IF parsed.text = <<>> THEN st
    ELSE [st EXCEPT
            !.loaded_content = DictSet(@, url, parsed),
            !.all_chunks = @ \o chunk_text(parsed.text,
                  [url |-> url, title |-> parsed.title,
                   domain |-> parsed.domain], W, O)]

\* `html = self.fetch_url(url)`, `if html:` with its body
StoreFetched(st, url, f, W, O) ==
    IF f.raised THEN [st EXCEPT !.raised = TRUE]
    ELSE IF f.html = Nothing \/ The(f.html) = <<>> THEN st
    ELSE StoreParsed(st, url, parse_html(The(f.html), url), W, O)

\* the body of `for url in urls` for one known url
LoadUrl(st, url, outcome, W, O) ==
    StoreFetched([st EXCEPT !.fetched = Append(@, url)], url,
                 fetch_url(outcome), W, O)

\* the body of `for url in urls` for one entry and one fetch outcome
LoadBody(st, entry, outcome, W, O) ==
    IF IsBlank(entry) THEN st
    ELSE LoadUrl(st, UrlToFetch(entry), outcome, W, O)

LoadStart ==
    [loaded_content |-> <<>>, all_chunks |-> <<>>, fetched |-> <<>>,
     raised |-> FALSE]

RECURSIVE LoadLoop(_, _, _, _, _)
LoadLoop(st, urls, outcomes, W, O) ==
    IF urls = <<>> \/ st.raised THEN st
    ELSE LoadLoop(LoadBody(st, urls[1], outcomes[1], W, O),
                  Tail(urls), Tail(outcomes), W, O)

\* WebLoader.load_urls(urls), given the outcome of the fetch of each entry
LoadResult(st) ==
    [loaded_content |-> st.loaded_content,
     chunks |-> st.all_chunks,
     total_chunks |-> Len(st.all_chunks),
     urls_processed |-> Len(st.loaded_content),
     fetched |-> st.fetched,
     raised |-> st.raised]

load_urls(urls, outcomes, W, O) ==
    LoadResult(LoadLoop(LoadStart, urls, outcomes, W, O))

(***************************************************************************)
(* State.                                                                  *)
(***************************************************************************)
VARIABLES
    \* CitationEngine fields
    citations,          \* List[Citation]
    citation_map,       \* Dict[str, int]
    processed_sources,  \* Set[str]
    \* environment of the engine
    today,              \* datetime.now().strftime("%Y-%m-%d")
    call_log,           \* add_citation calls since construction or reset
    was_reset,          \* reset() has been called on the engine
    \* WebLoader fields
    chunk_size,
    chunk_overlap,
    \* one call of WebLoader.chunk_text
    text_in,            \* the text given
    chunk_out,          \* Optional: the list returned
    \* one call of WebLoader.load_urls
    in_urls,            \* the list given
    pos,                \* the entry the loop stands at (1-based)
    loaded_content,     \* dict url -> parsed
    all_chunks,
    lpc,                \* "idle", "loop", "done" (returned) or "raised"
    fetch_log,          \* the fetch_url calls made so far
    \* one invocation of the research Q&A graph
    state,              \* ResearchQAState
    qa_pc,              \* the node to run next, "end", or "idle"
    scored_chunks,      \* retrieve_relevant_info's local list, as last built
    llm_calls,          \* number of self.llm.invoke calls made
    \* one invocation of the report graph
    report_state,       \* ReportState
    report_pc,          \* the node to run next, "end", "raised", or "idle"
    str_coercion,       \* the installed pydantic turns an int into a str
    search_log,         \* the search.invoke calls of this invocation
    llm_response,       \* Optional: what generate_report's llm.invoke did
    \* the compiled graph
    invocations,        \* graph.invoke calls made on it so far
    \* the Streamlit session
    module_states,      \* st.session_state.module_states
    settings,           \* st.session_state.settings
    last_run            \* the script run made last: what it was given and did

citeVars ==
    <<citations, citation_map, processed_sources, today, call_log, was_reset>>

splitterVars == <<chunk_size, chunk_overlap>>

chunkVars == <<text_in, chunk_out>>

loadVars == <<in_urls, pos, loaded_content, all_chunks, lpc, fetch_log>>

qaVars == <<state, qa_pc, scored_chunks, llm_calls>>

reportVars ==
    <<report_state, report_pc, str_coercion, search_log, llm_response>>

graphVars == <<invocations>>

sessionVars == <<module_states, settings, last_run>>

vars ==
    <<citeVars, splitterVars, chunkVars, loadVars, qaVars, reportVars,
      graphVars, sessionVars>>

\* what the operations of one component leave alone
nonCiteVars ==
    <<sessionVars, splitterVars, chunkVars, loadVars, qaVars, reportVars,
      graphVars>>
nonChunkVars ==
    <<citeVars, sessionVars, splitterVars, loadVars, qaVars, reportVars,
      graphVars>>
nonLoadVars ==
    <<citeVars, sessionVars, splitterVars, chunkVars, qaVars, reportVars,
      graphVars>>
nonQaVars ==
    <<sessionVars, splitterVars, chunkVars, loadVars, reportVars, graphVars>>
nonReportVars ==
    <<sessionVars, splitterVars, chunkVars, loadVars, qaVars, graphVars>>
nonSessionVars ==
    <<citeVars, splitterVars, chunkVars, loadVars, qaVars, reportVars,
      graphVars>>

(***************************************************************************)
(* CitationEngine                                                          *)
(***************************************************************************)
Days == <<S("2026-01-01"), S("2026-01-02")>>

CiteTitles == {<<"A">>, <<"B">>}
CiteUrls == {<<"u">>, <<"v">>}
CiteExcerpts == {<<"x">>, <<"y">>}
CiteDates == {None, S("2025-12-31")}

\* `url in self.citation_map`, ignoring the map
UrlCitedNever(map, url) == FALSE

\* `url in self.citation_map`
UrlCited(map, url) == url \in DOMAIN map

\* index of a new citation, zero-based
NextIndexZeroBased(cits) == Len(cits)

\* index = len(self.citations) + 1
NextIndex(cits) == Len(cits) + 1

\* accessed_date defaults to the current date
EffectiveDate(accessed_date, now) ==
    IF accessed_date = None THEN now ELSE accessed_date

\* Citation(...) is a pydantic model: title, url and excerpt must be str
CitationValid(title, url, excerpt) ==
    title # None /\ url # None /\ excerpt # None

\* CitationEngine.add_citation as a function of the engine's fields:
\* the new fields, the returned index, and whether the call raised.
add_citation(eng, title, url, excerpt, accessed_date, now) ==
    IF UrlCited(eng.citation_map, url)
    THEN [eng |-> eng, ret |-> eng.citation_map[url], raised |-> FALSE]
    ELSE IF ~CitationValid(title, url, excerpt)
    THEN [eng |-> eng, ret |-> 0, raised |-> TRUE]
    ELSE LET index == NextIndex(eng.citations)
             citation == [index |-> index, title |-> title, url |-> url,
                          excerpt |-> excerpt,
                          accessed_date |-> EffectiveDate(accessed_date, now)]
         IN [eng |-> [citations |-> Append(eng.citations, citation),
                      citation_map |->
                          [u \in DOMAIN eng.citation_map \cup {url} |->
                              IF u = url THEN index ELSE eng.citation_map[u]],
                      processed_sources |-> eng.processed_sources \cup {url}],
             ret |-> index, raised |-> FALSE]

\* self.citations = []
ResetCitations(cits) == <<>>

EmptyMap == [u \in {} |-> 0]

Engine ==
    [citations |-> citations, citation_map |-> citation_map,
     processed_sources |-> processed_sources]

SetEngine(eng) ==
    /\ citations' = eng.citations
    /\ citation_map' = eng.citation_map
    /\ processed_sources' = eng.processed_sources

\* CitationEngine.__init__
CiteInit ==
    /\ citations = <<>>
    /\ citation_map = EmptyMap
    /\ processed_sources = {}
    /\ today = Days[1]
    /\ call_log = <<>>
    /\ was_reset = FALSE

\* WebLoader.__init__ with its default arguments
SplitterInit ==
    /\ chunk_size = ChunkSizeDefault
    /\ chunk_overlap = ChunkOverlapDefault

\* no chunk_text call under way
ChunkIdle ==
    /\ text_in = <<>>
    /\ chunk_out = Nothing

\* no load_urls call under way
LoadIdle ==
    /\ in_urls = <<>>
    /\ pos = 1
    /\ loaded_content = <<>>
    /\ all_chunks = <<>>
    /\ lpc = "idle"
    /\ fetch_log = <<>>

\* no research Q&A graph invoked
QaIdle ==
    /\ state = [question |-> <<>>, urls |-> <<>>, chunks |-> Nothing,
                retrieved_chunks |-> Nothing, answer |-> None,
                citations |-> <<>>, sources |-> Nothing, error |-> None]
    /\ qa_pc = "idle"
    /\ scored_chunks = <<>>
    /\ llm_calls = 0

\* the state a caller passes to the report graph
ReportInput(title, topic, query, urls, enable_citations, enable_web_search) ==
    [title |-> title, topic |-> topic, query |-> query,
     target_audience |-> <<>>, tone |-> S("Technical"),
     length |-> S("Medium"), template |-> S("technical_report"),
     urls |-> urls, enable_citations |-> enable_citations,
     enable_web_search |-> enable_web_search,
     loaded_content |-> Nothing, search_results |-> Nothing,
     report |-> Nothing, error |-> None]

\* no report graph invoked
ReportIdle ==
    /\ report_state = ReportInput(<<>>, <<>>, <<>>, <<>>, TRUE, FALSE)
    /\ report_pc = "idle"
    /\ str_coercion = TRUE
    /\ search_log = <<>>
    /\ llm_response = Nothing

(***************************************************************************)
(* The Streamlit session.  A dict is the list of its (key, value) pairs in *)
(* insertion order; the keys of the session dicts are plain strings.       *)
(***************************************************************************)
Modules ==
    <<"chatbot", "web_chatbot", "news_generator", "blog_generator",
      "report_generator", "research_qa">>

\* the dict literal of initialize_session_state
DefaultModuleStates == [i \in 1..Len(Modules) |-> <<Modules[i], <<>>>>]

\* temperature in tenths
DefaultSettings ==
    <<<<"temperature", 7>>, <<"max_tokens", 2048>>,
      <<"enable_memory", TRUE>>, <<"theme", "light">>>>

\* one run of the script: the page rendered, the event handled, what it was
\* given and what it did
Run(page, event) ==
    [page |-> page, event |-> event,
     display |-> "none",        \* "none", "result" or "error"
     raised |-> FALSE,          \* the try block of the handler raised
     result |-> Nothing,        \* what graph.invoke returned
     before |-> <<>>,           \* the stored messages when the event came
     input |-> <<>>,            \* the text the user submitted
     context |-> <<>>,          \* extracted_context of the turn
     llm_messages |-> Nothing]  \* what llm.invoke was called with

\* initialize_session_state() on a new session
SessionInit ==
    /\ module_states = DefaultModuleStates
    /\ settings = DefaultSettings
    /\ last_run = Run("none", "none")

\* a caller invokes engine.add_citation(title, url, excerpt, accessed_date)
AddCitation ==
    /\ Len(call_log) < MaxCalls
    /\ \E title \in CiteTitles, url \in CiteUrls, excerpt \in CiteExcerpts,
          accessed_date \in CiteDates :
          LET r == add_citation(Engine, title, url, excerpt, accessed_date, today)
          IN /\ SetEngine(r.eng)
             /\ call_log' = Append(call_log,
                    [title |-> title, url |-> url, excerpt |-> excerpt,
                     accessed_date |-> EffectiveDate(accessed_date, today),
                     ret |-> r.ret, before |-> citations])
    /\ UNCHANGED <<today, was_reset>>
    /\ UNCHANGED nonCiteVars

\* a caller invokes engine.reset()
Reset ==
    /\ citations' = ResetCitations(citations)
    /\ citation_map' = EmptyMap
    /\ processed_sources' = {}
    /\ call_log' = <<>>
    /\ was_reset' = TRUE
    /\ UNCHANGED today
    /\ UNCHANGED nonCiteVars

\* the date changes between two calls
Midnight ==
    /\ today = Days[1]
    /\ today' = Days[2]
    /\ UNCHANGED <<citations, citation_map, processed_sources, call_log,
                   was_reset>>
    /\ UNCHANGED nonCiteVars

CiteNext == AddCitation \/ Reset \/ Midnight

SpecCiteInit ==
    /\ CiteInit /\ SplitterInit /\ SessionInit
    /\ ChunkIdle /\ LoadIdle /\ QaIdle /\ ReportIdle
    /\ invocations = 0

SpecCite == SpecCiteInit /\ [][CiteNext]_vars

(***************************************************************************)
(* One call of WebLoader.chunk_text on a loader constructed with a small   *)
(* chunk_size and chunk_overlap.                                           *)
(***************************************************************************)
ChunkAlphabet == {"a", " ", "\n"}

ChunkTexts == SeqsUpTo(ChunkAlphabet, MaxTextLen)

\* chunk_size and chunk_overlap a splitter accepts, with overlap < size
SmallConfigs == {c \in (1..MaxChunkSize) \X (0..MaxChunkSize) : c[2] < c[1]}

ChunkMeta == [url |-> S("h://a"), title |-> S("T"), domain |-> S("a")]

SpecChunkInit ==
    /\ CiteInit
    /\ invocations = 0
    /\ SessionInit
    /\ LoadIdle
    /\ QaIdle
    /\ ReportIdle
    /\ \E c \in SmallConfigs : chunk_size = c[1] /\ chunk_overlap = c[2]
    /\ text_in \in ChunkTexts
    /\ chunk_out = Nothing

\* loader.chunk_text(text, metadata)
ChunkText ==
    /\ chunk_out = Nothing
    /\ chunk_out' = Some(chunk_text(text_in, ChunkMeta, chunk_size, chunk_overlap))
    /\ UNCHANGED text_in
    /\ UNCHANGED nonChunkVars

SpecChunk == SpecChunkInit /\ [][ChunkText]_vars

(***************************************************************************)
(* One call of WebLoader.load_urls, one iteration of its loop at a time.   *)
(***************************************************************************)
UrlPool == {<<>>, S(" "), S("h://a"), S(" h://b/p ")}

DocTitled ==
    <<[tag |-> "title", text |-> S("T")],
      [tag |-> "script", text |-> S("js")],
      [tag |-> "p", text |-> S("ab cd")]>>

DocEmptyTitle ==
    <<[tag |-> "title", text |-> <<>>],
      [tag |-> "nav", text |-> S("menu")],
      [tag |-> "p", text |-> S(" X is ")]>>

DocHeading ==
    <<[tag |-> "h1", text |-> S("H")],
      [tag |-> "footer", text |-> S("f")]>>

DocScriptOnly ==
    <<[tag |-> "script", text |-> S("js")],
      [tag |-> "style", text |-> S(".c")]>>

DocDeep == <<[tag |-> "deep", text |-> S("ab")]>>

Docs == {DocTitled, DocEmptyTitle, DocHeading, DocScriptOnly, DocDeep}

\* what requests.get(url) followed by raise_for_status can do: raise, or
\* yield a response whose text is one of the given documents
OutcomesWith(docs) ==
    {[kind |-> "raise", html |-> <<>>]}
        \cup {[kind |-> "ok", html |-> d] : d \in docs}

\* the response text is empty or a document
FetchOutcomes ==
    OutcomesWith({<<>>, DocTitled, DocEmptyTitle, DocScriptOnly, DocDeep})

LoadConfigs ==
    {<<ChunkSizeDefault, ChunkOverlapDefault>>, <<MaxChunkSize, 1>>}

SpecLoadInit ==
    /\ CiteInit
    /\ invocations = 0
    /\ SessionInit
    /\ ChunkIdle
    /\ QaIdle
    /\ ReportIdle
    /\ \E c \in LoadConfigs : chunk_size = c[1] /\ chunk_overlap = c[2]
    /\ in_urls \in SeqsUpTo(UrlPool, MaxUrls)
    /\ pos = 1
    /\ loaded_content = <<>>
    /\ all_chunks = <<>>
    /\ lpc = "loop"
    /\ fetch_log = <<>>

\* one iteration of `for url in urls`
LoadIterate ==
    /\ lpc = "loop"
    /\ pos <= Len(in_urls)
    /\ \E outcome \in FetchOutcomes :
          LET st == LoadBody([loaded_content |-> loaded_content,
                              all_chunks |-> all_chunks,
                              fetched |-> <<>>, raised |-> FALSE],
                             in_urls[pos], outcome, chunk_size, chunk_overlap)
          IN /\ loaded_content' = st.loaded_content
             /\ all_chunks' = st.all_chunks
             /\ lpc' = IF st.raised THEN "raised" ELSE "loop"
             /\ fetch_log' = fetch_log \o
                    [i \in 1..Len(st.fetched) |->
                        [pos |-> pos, url |-> st.fetched[i],
                         outcome |-> outcome,
                         html |-> fetch_url(outcome).html,
                         loaded_before |-> loaded_content,
                         chunks_before |-> all_chunks]]
    /\ pos' = pos + 1
    /\ UNCHANGED in_urls
    /\ UNCHANGED nonLoadVars

\* the loop is over: `return {...}`
LoadReturn ==
    /\ lpc = "loop"
    /\ pos > Len(in_urls)
    /\ lpc' = "done"
    /\ UNCHANGED <<in_urls, pos, loaded_content, all_chunks, fetch_log>>
    /\ UNCHANGED nonLoadVars

LoadNext == LoadIterate \/ LoadReturn

SpecLoad == SpecLoadInit /\ [][LoadNext]_vars

(***************************************************************************)
(* ResearchQANode: the five nodes of the research Q&A graph.               *)
(***************************************************************************)
\* the `[:5]` of retrieve_relevant_info
TopK == 5
\* the `[:200]` of the excerpt
ExcerptLen == 200

\* set(question.lower().split())
question_words(question) == WordSet(lower(question))

\* the orders in which a set can be iterated
Orders(set) ==
    {o \in [1..Cardinality(set) -> set] :
        \A i, j \in 1..Cardinality(set) : o[i] = o[j] => i = j}

\* `word in content`
WordMatches(word, content) == Contains(content, word)

\* sum(1 for word in question_words if word in content)
RECURSIVE CountMatches(_, _)
CountMatches(order, content) ==
    IF order = <<>> THEN 0
    ELSE (IF WordMatches(order[1], content) THEN 1 ELSE 0)
            + CountMatches(Tail(order), content)

\* matches / len(question_words) if question_words else 0, as a fraction
Score(order, chunk) ==
    IF order = <<>> THEN [num |-> 0, den |-> 1]
    ELSE [num |-> CountMatches(order, lower(chunk.content)),
          den |-> Len(order)]

ScoreGreater(a, b) == a.num * b.den > b.num * a.den

ScoreEqual(a, b) == a.num * b.den = b.num * a.den

\* the place of x in a list sorted by falling score: after the items that
\* score as much or more
RECURSIVE InsertDesc(_, _)
InsertDesc(sorted, x) ==
    IF sorted = <<>> THEN <<x>>
    ELSE IF ScoreGreater(x.score, sorted[1].score) THEN <<x>> \o sorted
    ELSE <<sorted[1]>> \o InsertDesc(Tail(sorted), x)

\* the place of x when ties are put in front
RECURSIVE InsertDescFront(_, _)
InsertDescFront(sorted, x) ==
    IF sorted = <<>> THEN <<x>>
    ELSE IF ~ScoreGreater(sorted[1].score, x.score) THEN <<x>> \o sorted
    ELSE <<sorted[1]>> \o InsertDescFront(Tail(sorted), x)

RECURSIVE SortInto(_, _)
SortInto(sorted, items) ==
    IF items = <<>> THEN sorted
    ELSE SortInto(InsertDesc(sorted, items[1]), Tail(items))

RECURSIVE SortIntoFront(_, _)
SortIntoFront(sorted, items) ==
    IF items = <<>> THEN sorted
    ELSE SortIntoFront(InsertDescFront(sorted, items[1]), Tail(items))

\* sorted(items, key=score)[::-1]: ties come out in reverse input order
sorted_then_reversed(items) == SortIntoFront(<<>>, items)

\* sorted(items, key=lambda x: x["score"], reverse=True): a stable sort
sorted_by_score(items) == SortInto(<<>>, items)

\* add_citation for each item in turn, until one raises
RECURSIVE CiteAll(_, _, _, _)
CiteAll(eng, log, items, now) ==
    IF items = <<>> THEN [eng |-> eng, log |-> log, raised |-> FALSE]
    ELSE LET it == items[1]
             r == add_citation(eng, it.title, it.url, it.excerpt, None, now)
         IN IF r.raised THEN [eng |-> eng, log |-> log, raised |-> TRUE]
            ELSE CiteAll(r.eng,
                         Append(log,
                            [title |-> it.title, url |-> it.url,
                             excerpt |-> it.excerpt,
                             accessed_date |-> EffectiveDate(None, now),
                             ret |-> r.ret, before |-> eng.citations]),
                         Tail(items), now)

\* `not state.get("chunks")` and the like: None or an empty list
Falsy(opt) == opt = Nothing \/ The(opt) = <<>>

\* `if not question or not chunks`
RetrieveGuardQuestionOnly(question, chunks) == question = <<>>

RetrieveGuard(question, chunks) == question = <<>> \/ Falsy(chunks)

ErrNoUrls == S("No URLs provided")
ErrLoad == S("Failed to load URLs: ")
ErrNoChunks == S("No content chunks available")
ErrMissing == S("Question or chunks missing")
ErrRetrieval == S("Retrieval failed: ")
ErrNoInfo == S("No relevant information found")
ErrAnswer == S("Failed to generate answer: ")

\* str(e) of the exceptions met
ValidationErrorText == S("1 validation error for Citation")
TypeErrorText == S("'NoneType' object is not iterable")
LlmErrorText == S("API error")
LoadErrorText == S("request failed")

\* what self.llm.invoke(prompt) can do
LlmOutcomes ==
    {[kind |-> "raise", content |-> <<>>],
     [kind |-> "ok", content |-> S("An answer [1]")],
     [kind |-> "ok", content |-> <<>>]}

\* the try/except around self.web_loader.load_urls(urls)
QaStoreLoaded(st, result) ==
    IF result.raised THEN [st EXCEPT !.error = ErrLoad \o LoadErrorText]
    ELSE [st EXCEPT !.chunks = Some(result.chunks)]

\* ResearchQANode.load_urls
qa_load_urls(st, outcomes, W, O) ==
    IF st.urls = <<>> THEN [st EXCEPT !.error = ErrNoUrls]
    ELSE QaStoreLoaded(st, load_urls(st.urls, outcomes, W, O))

\* ResearchQANode.chunk_content
qa_chunk_content(st) ==
    IF Falsy(st.chunks) THEN [st EXCEPT !.error = ErrNoChunks] ELSE st

\* ResearchQANode.retrieve_relevant_info, with the order in which the set
\* question_words is iterated
qa_retrieve_relevant_info(st, eng, log, order, now) ==
    IF RetrieveGuard(st.question, st.chunks)
    THEN [state |-> [st EXCEPT !.error = ErrMissing], eng |-> eng,
          log |-> log, scored |-> <<>>]
    ELSE
    IF st.chunks = Nothing
    THEN \* `for chunk in chunks` on None: a TypeError, caught
         [state |-> [st EXCEPT !.error = ErrRetrieval \o TypeErrorText],
          eng |-> eng, log |-> log, scored |-> <<>>]
    ELSE
    LET chunks == The(st.chunks)
        scored == [i \in 1..Len(chunks) |->
                      [chunk |-> chunks[i], score |-> Score(order, chunks[i])]]
        top_chunks == Slice(sorted_by_score(scored), TopK)
        retrieved == [i \in 1..Len(top_chunks) |-> top_chunks[i].chunk]
        cited == CiteAll(eng, log,
                    [i \in 1..Len(top_chunks) |->
                        [title |-> top_chunks[i].chunk.metadata.title,
                         url |-> top_chunks[i].chunk.metadata.url,
                         excerpt |-> Slice(top_chunks[i].chunk.content,
                                           ExcerptLen)]],
                    now)
    IN [state |-> IF cited.raised
                  THEN [st EXCEPT !.retrieved_chunks = Some(retrieved),
                                  !.error = ErrRetrieval \o ValidationErrorText]
                  ELSE [st EXCEPT !.retrieved_chunks = Some(retrieved)],
        eng |-> cited.eng, log |-> cited.log, scored |-> scored]

\* ResearchQANode.answer_question: the new state and the llm calls made
qa_answer_question(st, outcome) ==
    IF Falsy(st.retrieved_chunks)
    THEN [state |-> [st EXCEPT !.error = ErrNoInfo], invoked |-> 0]
    ELSE IF outcome.kind = "raise"
    THEN [state |-> [st EXCEPT !.error = ErrAnswer \o LlmErrorText],
          invoked |-> 1]
    ELSE [state |-> [st EXCEPT !.answer = outcome.content], invoked |-> 1]

\* ResearchQANode.generate_citations
qa_generate_citations(st, eng) == [st EXCEPT !.citations = eng.citations]

(***************************************************************************)
(* The compiled research Q&A graph: START -> load_urls -> chunk_content    *)
(* -> retrieve_relevant_info -> answer_question -> generate_citations ->   *)
(* END, one action per node.                                               *)
(***************************************************************************)
\* the state a caller passes to graph.invoke
QaInput(question, urls) ==
    [question |-> question, urls |-> urls, chunks |-> Nothing,
     retrieved_chunks |-> Nothing, answer |-> None, citations |-> <<>>,
     sources |-> Nothing, error |-> None]

QaLoadUrls ==
    /\ qa_pc = "load_urls"
    /\ \E outcomes \in [1..Len(state.urls) -> FetchOutcomes] :
          state' = qa_load_urls(state, outcomes, chunk_size, chunk_overlap)
    /\ qa_pc' = "chunk_content"
    /\ UNCHANGED <<scored_chunks, llm_calls, citeVars>>
    /\ UNCHANGED nonQaVars

\* chunk_content behind a conditional edge that ends the run on an error
QaChunkContentBranching ==
    /\ qa_pc = "chunk_content"
    /\ state' = qa_chunk_content(state)
    /\ qa_pc' = IF state'.error # None THEN "end" ELSE "retrieve_relevant_info"
    /\ UNCHANGED <<scored_chunks, llm_calls, citeVars>>
    /\ UNCHANGED nonQaVars

QaChunkContent ==
    /\ qa_pc = "chunk_content"
    /\ state' = qa_chunk_content(state)
    /\ qa_pc' = "retrieve_relevant_info"
    /\ UNCHANGED <<scored_chunks, llm_calls, citeVars>>
    /\ UNCHANGED nonQaVars

QaRetrieveRelevantInfo ==
    /\ qa_pc = "retrieve_relevant_info"
    /\ \E order \in Orders(question_words(state.question)) :
          LET r == qa_retrieve_relevant_info(state, Engine, call_log, order,
                                             today)
          IN /\ state' = r.state
             /\ SetEngine(r.eng)
             /\ call_log' = r.log
             /\ scored_chunks' = r.scored
    /\ qa_pc' = "answer_question"
    /\ UNCHANGED <<llm_calls, today, was_reset>>
    /\ UNCHANGED nonQaVars

QaAnswerQuestion ==
    /\ qa_pc = "answer_question"
    /\ \E outcome \in LlmOutcomes :
          LET r == qa_answer_question(state, outcome)
          IN /\ state' = r.state
             /\ llm_calls' = llm_calls + r.invoked
    /\ qa_pc' = "generate_citations"
    /\ UNCHANGED <<scored_chunks, citeVars>>
    /\ UNCHANGED nonQaVars

QaGenerateCitations ==
    /\ qa_pc = "generate_citations"
    /\ state' = qa_generate_citations(state, Engine)
    /\ qa_pc' = "end"
    /\ UNCHANGED <<scored_chunks, llm_calls, citeVars>>
    /\ UNCHANGED nonQaVars

QaNext ==
    \/ QaLoadUrls
    \/ QaChunkContent
    \/ QaRetrieveRelevantInfo
    \/ QaAnswerQuestion
    \/ QaGenerateCitations

QaQuestions == {<<>>, S("What is X?")}

QaUrlPool == {S(" "), S("h://a"), S(" h://b/p ")}

\* create_research_qa_graph(llm) followed by graph.invoke(state)
SpecQAInit ==
    /\ CiteInit
    /\ invocations = 1
    /\ SplitterInit /\ SessionInit
    /\ ChunkIdle
    /\ LoadIdle
    /\ ReportIdle
    /\ \E question \in QaQuestions, urls \in SeqsUpTo(QaUrlPool, MaxQaUrls) :
          state = QaInput(question, urls)
    /\ qa_pc = "load_urls"
    /\ scored_chunks = <<>>
    /\ llm_calls = 0

SpecQA == SpecQAInit /\ [][QaNext]_vars

\* the names of the nodes added by build()
QaNodes ==
    {"load_urls", "chunk_content", "retrieve_relevant_info",
     "answer_question", "generate_citations"}

\* graph.invoke runs the node the run is at: the run leaves it, for another
\* node, for END, or by the exception the node raised
QaRunNode ==
    /\ qa_pc \in QaNodes
    /\ qa_pc' \in (QaNodes \cup {"end", "raised"}) \ {qa_pc}

\* graph.invoke does not return before the run has left every node it is at
SpecQALive == SpecQA /\ WF_qa_pc(QaRunNode)

(***************************************************************************)
(* retrieve_relevant_info alone, on chunk lists of up to MaxChunks chunks  *)
(* cut from one source.                                                    *)
(***************************************************************************)
RetrieveQuestions == {<<>>, S(" "), S("is X"), S("X")}

RetrieveContents == {S("X is"), S("this"), S("is")}

RetrieveMeta == [url |-> S("h://a"), title |-> S("T"), domain |-> S("a")]

ChunksOf(contents) ==
    [i \in 1..Len(contents) |->
        [content |-> contents[i], metadata |-> RetrieveMeta,
         chunk_index |-> i - 1]]

SpecRetrieveInit ==
    /\ CiteInit
    /\ invocations = 1
    /\ SplitterInit /\ SessionInit
    /\ ChunkIdle
    /\ LoadIdle
    /\ ReportIdle
    /\ \E question \in RetrieveQuestions,
          contents \in SeqsUpTo(RetrieveContents, MaxChunks) :
          state = [QaInput(question, <<S("h://a")>>) EXCEPT
                      !.chunks = Some(ChunksOf(contents))]
    /\ qa_pc = "retrieve_relevant_info"
    /\ scored_chunks = <<>>
    /\ llm_calls = 0

SpecRetrieve == SpecRetrieveInit /\ [][QaRetrieveRelevantInfo]_vars

(***************************************************************************)
(* ReportGeneratorNode: the four nodes of the report graph.                *)
(***************************************************************************)
\* str.splitlines(): the lines, without a last empty one
SplitLines(text) ==
    IF text = <<>> THEN <<>>
    ELSE LET parts == SplitOn(text, <<"\n">>)
         IN IF parts[Len(parts)] = <<>> THEN SubSeq(parts, 1, Len(parts) - 1)
            ELSE parts

\* s.strip(chars)
StripChars(s, chars) ==
    LET keep == {i \in 1..Len(s) : s[i] \notin chars}
    IN IF keep = {} THEN <<>>
       ELSE SubSeq(s, CHOOSE i \in keep : \A j \in keep : i <= j,
                      CHOOSE i \in keep : \A j \in keep : i >= j)

\* len(s.split())
WordCount(s) ==
    Cardinality({i \in 1..Len(s) :
                    ~IsSpace(s[i]) /\ (i = 1 \/ IsSpace(s[i - 1]))})

Digit(d) == <<"0", "1", "2", "3", "4", "5", "6", "7", "8", "9">>[d + 1]

\* str(n) for n >= 0
RECURSIVE IntToStr(_)
IntToStr(n) ==
    IF n < 10 THEN <<Digit(n)>> ELSE IntToStr(n \div 10) \o <<Digit(n % 10)>>

\* `if current == "sections" and section_title: sections["sections"].append`
FlushSection(ps) ==
    IF ps.current = "sections" /\ ps.section_title # None
          /\ ps.section_title # <<>>
    THEN Append(ps.sections.sections,
                [title |-> ps.section_title,
                 content |-> Join(ps.buffer, <<"\n">>)])
    ELSE ps.sections.sections

\* _parse_sections: one iteration of `for line in text.splitlines()`
ParseLine(ps, line) ==
    LET low == strip(lower(line))
    IN IF Contains(low, S("executive summary"))
       THEN [ps EXCEPT !.current = "executive_summary", !.buffer = <<>>]
       ELSE IF StartsAt(low, S("introduction"), 1)
       THEN [ps EXCEPT !.current = "introduction", !.buffer = <<>>]
       ELSE IF StartsAt(low, S("conclusion"), 1)
       THEN [ps EXCEPT !.sections.sections = FlushSection(ps),
                       !.current = "conclusion", !.buffer = <<>>]
       ELSE IF StartsAt(line, <<"#">>, 1)
       THEN [ps EXCEPT !.sections.sections = FlushSection(ps),
                       !.current = "sections",
                       !.section_title = strip(StripChars(line, {"#", " "})),
                       !.buffer = <<>>]
       ELSE [ps EXCEPT !.buffer = Append(@, line)]

RECURSIVE ParseLines(_, _)
ParseLines(ps, lines) ==
    IF lines = <<>> THEN ps ELSE ParseLines(ParseLine(ps, lines[1]), Tail(lines))

\* ReportGeneratorNode._parse_sections; sections_is_list is FALSE when the
\* final `elif current:` stores the joined str under "sections"
parse_sections(text) ==
    LET ps == ParseLines(
                [sections |-> [executive_summary |-> <<>>,
                               introduction |-> <<>>,
                               sections |-> <<>>,
                               conclusion |-> <<>>,
                               sections_is_list |-> TRUE],
                 current |-> "", buffer |-> <<>>, section_title |-> None],
                SplitLines(text))
        body == Join(ps.buffer, <<"\n">>)
    IN IF ps.current = "sections" /\ ps.section_title # None
             /\ ps.section_title # <<>>
       THEN [ps.sections EXCEPT !.sections = FlushSection(ps)]
       ELSE IF ps.current = "sections"
       THEN [ps.sections EXCEPT !.sections = body, !.sections_is_list = FALSE]
       ELSE IF ps.current = "executive_summary"
       THEN [ps.sections EXCEPT !.executive_summary = body]
       ELSE IF ps.current = "introduction"
       THEN [ps.sections EXCEPT !.introduction = body]
       ELSE IF ps.current = "conclusion"
       THEN [ps.sections EXCEPT !.conclusion = body]
       ELSE ps.sections

ErrReport == S("Report generation failed: ")
ContentErrorText == S("1 validation error for ReportContent")

\* {"loaded_content": {}}
EmptyLoaded == [loaded_content |-> <<>>]

\* the try/except around self.web_loader.load_urls(urls)
ReportStoreLoaded(st, loaded) ==
    IF loaded.raised
    THEN [st EXCEPT !.loaded_content = Some(EmptyLoaded),
                    !.error = ErrLoad \o LoadErrorText]
    ELSE [st EXCEPT !.loaded_content =
             Some([loaded_content |-> loaded.loaded_content,
                   chunks |-> loaded.chunks,
                   total_chunks |-> loaded.total_chunks,
                   urls_processed |-> loaded.urls_processed])]

\* ReportGeneratorNode.load_urls
report_load_urls(st, outcomes, W, O) ==
    IF st.urls = <<>> THEN [st EXCEPT !.loaded_content = Some(EmptyLoaded)]
    ELSE ReportStoreLoaded(st, load_urls(st.urls, outcomes, W, O))

\* what TavilySearchResults(max_results=5).invoke(query) can do
SearchOutcomes ==
    {[kind |-> "raise", results |-> <<>>],
     [kind |-> "ok",
      results |-> <<[url |-> S("h://s"), content |-> S("found")]>>]}

\* ReportGeneratorNode.web_search: the new state and the searches made
report_web_search(st, outcome) ==
    IF ~st.enable_web_search THEN [state |-> st, searched |-> 0]
    ELSE IF st.query = <<>> THEN [state |-> st, searched |-> 0]
    ELSE IF outcome.kind = "raise" THEN [state |-> st, searched |-> 1]
    ELSE [state |-> [st EXCEPT !.search_results = Some(outcome.results)],
          searched |-> 1]

\* state["loaded_content"]["loaded_content"], {} when either is missing
SourcesOf(st) ==
    IF st.loaded_content = Nothing THEN <<>>
    ELSE The(st.loaded_content).loaded_content

\* ReportGeneratorNode.summarize_sources; it has no try/except, so a
\* raising add_citation leaves the node by the exception
report_summarize_sources(st, eng, log, now) ==
    LET sources == SourcesOf(st)
        cited == CiteAll(eng, log,
                    [i \in 1..Len(sources) |->
                        [title |-> sources[i][2].title,
                         url |-> sources[i][1],
                         excerpt |-> Slice(sources[i][2].text, ExcerptLen)]],
                    now)
    IN [state |-> st, eng |-> cited.eng, log |-> cited.log,
        raised |-> cited.raised]

\* what self.llm.invoke(prompt) can do for the report prompt; content None
\* is read as ""
ReportTexts ==
    {S("Executive Summary\nA\nIntroduction\nB\n# One\nC\nConclusion\nD"),
     S("# One\nC d\n# Two\nE"),
     S("#\nC")}

ReportLlmOutcomes ==
    {[kind |-> "raise", content |-> <<>>], [kind |-> "ok", content |-> None]}
        \cup {[kind |-> "ok", content |-> t] : t \in ReportTexts}

\* ReportGeneratorNode.generate_report; coerces tells whether the
\* Dict[str, str] metadata field takes the int word_count
report_generate_report(st, eng, outcome, coerces) ==
    IF outcome.kind = "raise"
    THEN [st EXCEPT !.error = ErrReport \o LlmErrorText]
    ELSE
    LET report_text == IF outcome.content = None THEN <<>>
                       ELSE outcome.content
        parsed == parse_sections(report_text)
    IN IF ~coerces \/ ~parsed.sections_is_list
       THEN [st EXCEPT !.error = ErrReport \o ContentErrorText]
       ELSE [st EXCEPT !.report = Some(
                [title |-> st.title,
                 executive_summary |-> parsed.executive_summary,
                 introduction |-> parsed.introduction,
                 sections |-> parsed.sections,
                 conclusion |-> parsed.conclusion,
                 references |-> eng.citations,
                 metadata |-> [template |-> st.template, tone |-> st.tone,
                               topic |-> st.topic,
                               word_count |->
                                   IntToStr(WordCount(report_text))]])]

(***************************************************************************)
(* The compiled report graph: START -> load_urls -> web_search ->          *)
(* summarize_sources -> generate_report -> END, one action per node.       *)
(***************************************************************************)
ReportLoadUrls ==
    /\ report_pc = "load_urls"
    /\ \E outcomes \in [1..Len(report_state.urls) -> FetchOutcomes] :
          report_state' = report_load_urls(report_state, outcomes,
                                           chunk_size, chunk_overlap)
    /\ report_pc' = "web_search"
    /\ UNCHANGED <<str_coercion, search_log, llm_response, llm_calls>>
    /\ UNCHANGED citeVars
    /\ UNCHANGED <<state, qa_pc, scored_chunks>>
    /\ UNCHANGED <<sessionVars, splitterVars, chunkVars, loadVars, graphVars>>

ReportWebSearch ==
    /\ report_pc = "web_search"
    /\ \E outcome \in SearchOutcomes :
          LET r == report_web_search(report_state, outcome)
          IN /\ report_state' = r.state
             /\ search_log' =
                   IF r.searched = 0 THEN search_log
                   ELSE Append(search_log,
                               [query |-> report_state.query,
                                kind |-> outcome.kind,
                                before |-> report_state])
    /\ report_pc' = "summarize_sources"
    /\ UNCHANGED <<str_coercion, llm_response, llm_calls, citeVars>>
    /\ UNCHANGED <<state, qa_pc, scored_chunks>>
    /\ UNCHANGED <<sessionVars, splitterVars, chunkVars, loadVars, graphVars>>

ReportSummarizeSources ==
    /\ report_pc = "summarize_sources"
    /\ LET r == report_summarize_sources(report_state, Engine, call_log, today)
       IN /\ SetEngine(r.eng)
          /\ call_log' = r.log
          /\ report_pc' = IF r.raised THEN "raised" ELSE "generate_report"
    /\ UNCHANGED <<report_state, str_coercion, search_log, llm_response>>
    /\ UNCHANGED <<llm_calls, today, was_reset>>
    /\ UNCHANGED <<state, qa_pc, scored_chunks>>
    /\ UNCHANGED <<sessionVars, splitterVars, chunkVars, loadVars, graphVars>>

ReportGenerateReport ==
    /\ report_pc = "generate_report"
    /\ \E outcome \in ReportLlmOutcomes :
          /\ report_state' = report_generate_report(report_state, Engine,
                                                    outcome, str_coercion)
          /\ llm_response' = Some(outcome)
    /\ llm_calls' = llm_calls + 1
    /\ report_pc' = "end"
    /\ UNCHANGED <<str_coercion, search_log, citeVars>>
    /\ UNCHANGED <<state, qa_pc, scored_chunks>>
    /\ UNCHANGED <<sessionVars, splitterVars, chunkVars, loadVars, graphVars>>

ReportNext ==
    \/ ReportLoadUrls
    \/ ReportWebSearch
    \/ ReportSummarizeSources
    \/ ReportGenerateReport

\* create_report_generator_graph(llm) followed by graph.invoke(state), on
\* an installation whose pydantic coerces int to str or does not
SpecReportInit ==
    /\ CiteInit
    /\ invocations = 1
    /\ SplitterInit /\ SessionInit
    /\ ChunkIdle
    /\ LoadIdle
    /\ \E query \in {<<>>, S("q")}, urls \in SeqsUpTo(QaUrlPool, MaxQaUrls),
          enable_citations \in BOOLEAN, enable_web_search \in BOOLEAN :
          report_state = ReportInput(S("R"), S("t"), query, urls,
                                     enable_citations, enable_web_search)
    /\ report_pc = "load_urls"
    /\ str_coercion \in BOOLEAN
    /\ search_log = <<>>
    /\ llm_response = Nothing
    /\ state = QaInput(<<>>, <<>>)
    /\ qa_pc = "idle"
    /\ scored_chunks = <<>>
    /\ llm_calls = 0

SpecReport == SpecReportInit /\ [][ReportNext]_vars

(***************************************************************************)
(* A compiled graph invoked more than once.  The factories return the      *)
(* compiled graph; its node object, with the CitationEngine made in        *)
(* __init__, lives as long as the graph does.                              *)
(***************************************************************************)
MaxInvocations == 2

\* graph.invoke(state) again on the compiled Q&A graph, with other URLs
QaInvokeAgain ==
    /\ qa_pc = "end"
    /\ invocations < MaxInvocations
    /\ \E urls \in SeqsUpTo(QaUrlPool, MaxQaUrls) :
          state' = QaInput(state.question, urls)
    /\ qa_pc' = "load_urls"
    /\ scored_chunks' = <<>>
    /\ invocations' = invocations + 1
    /\ UNCHANGED <<llm_calls, citeVars>>
    /\ UNCHANGED <<sessionVars, splitterVars, chunkVars, loadVars, reportVars>>

\* graph.invoke(state) again on the compiled report graph, with other URLs,
\* after it returned or raised
ReportInvokeAgain ==
    /\ report_pc \in {"end", "raised"}
    /\ invocations < MaxInvocations
    /\ \E urls \in SeqsUpTo(QaUrlPool, MaxQaUrls) :
          report_state' = ReportInput(report_state.title, report_state.topic,
                                      report_state.query, urls,
                                      report_state.enable_citations,
                                      report_state.enable_web_search)
    /\ report_pc' = "load_urls"
    /\ search_log' = <<>>
    /\ llm_response' = Nothing
    /\ invocations' = invocations + 1
    /\ UNCHANGED <<str_coercion, llm_calls, citeVars>>
    /\ UNCHANGED <<state, qa_pc, scored_chunks>>
    /\ UNCHANGED <<sessionVars, splitterVars, chunkVars, loadVars>>

ReuseNext ==
    \/ QaNext
    \/ QaInvokeAgain
    \/ ReportNext
    \/ ReportInvokeAgain

\* one of the two graphs is compiled and invoked
SpecReuseInit == SpecQAInit \/ SpecReportInit

SpecReuse == SpecReuseInit /\ [][ReuseNext]_vars

(***************************************************************************)
(* utils/helpers.py and the pages of the Streamlit UI.  One action is one  *)
(* run of the script: Streamlit reruns the script from the top on every    *)
(* widget event, so a handler and the prologue of its page are one step.   *)
(***************************************************************************)
\* a chat turn is accepted while the stored history has fewer turns
MaxTurns == 2

\* get_module_state(module_name): the stored dict itself, or a new empty
\* one.  Its initialize_session_state() call, like every later one, finds
\* all four keys in st.session_state (SessionInit set them and no code
\* deletes a key), so it changes nothing.
get_module_state(ms, module_name) ==
    IF DictHas(ms, module_name) THEN DictGet(ms, module_name) ELSE <<>>

\* dict.update(updates)
RECURSIVE DictUpdate(_, _)
DictUpdate(d, updates) ==
    IF updates = <<>> THEN d
    ELSE DictUpdate(DictSet(d, updates[1][1], updates[1][2]), Tail(updates))

\* update_module_state(module_name, updates):
\* module_states[module_name] raises KeyError when the key is missing
update_module_state(ms, module_name, updates) ==
    IF DictHas(ms, module_name)
    THEN [raised |-> FALSE,
          module_states |->
              DictSet(ms, module_name,
                      DictUpdate(DictGet(ms, module_name), updates))]
    ELSE [raised |-> TRUE, module_states |-> ms]

\* clear_module_state(module_name)
clear_module_state(ms, module_name) ==
    DictSet(ms, module_name, <<>>)

\* an item assignment on the dict get_module_state returned: it is the
\* stored dict when the module has one, and a dict of the page otherwise
SetItem(ms, module_name, page_state) ==
    IF DictHas(ms, module_name)
    THEN DictSet(ms, module_name, page_state)
    ELSE ms

\* `if key not in d: d[key] = default`
SetDefault(d, k, default) == IF DictHas(d, k) THEN d ELSE DictSet(d, k, default)

(***************************************************************************)
(* Chat messages and the graphs of the two chat pages.  A message is its   *)
(* class, content and id; id 0 is None.                                    *)
(***************************************************************************)
HumanMessage(content) == [type |-> "human", content |-> content, id |-> 0]

AIMessage(content) == [type |-> "ai", content |-> content, id |-> 0]

RECURSIVE MaxId(_)
MaxId(msgs) ==
    IF msgs = <<>> THEN 0
    ELSE IF Head(msgs).id > MaxId(Tail(msgs)) THEN Head(msgs).id
         ELSE MaxId(Tail(msgs))

\* `if m.id is None: m.id = str(uuid.uuid4())`: an id no message has
AssignIds(msgs, taken) ==
    [i \in 1..Len(msgs) |->
        IF msgs[i].id = 0 THEN [msgs[i] EXCEPT !.id = taken + i] ELSE msgs[i]]

\* the merge loop of add_messages: a message of right replaces the message
\* of left that has its id, and is appended when left has none
RECURSIVE MergeById(_, _, _)
MergeById(left, merged, right) ==
    IF right = <<>> THEN merged
    ELSE IF \E i \in 1..Len(left) : left[i].id = Head(right).id
         THEN MergeById(left,
                        [merged EXCEPT
                            ![CHOOSE i \in 1..Len(left) :
                                /\ left[i].id = Head(right).id
                                /\ \A j \in (i + 1)..Len(left) :
                                      left[j].id # Head(right).id]
                            = Head(right)],
                        Tail(right))
         ELSE MergeById(left, Append(merged, Head(right)), Tail(right))

MergeInto(left, right) ==
    MergeById(left, left, AssignIds(right, MaxId(left \o right)))

\* add_messages(left, right), the reducer of ChatState.messages and
\* WebChatState.messages
add_messages(left, right) ==
    MergeInto(AssignIds(left, MaxId(left \o right)), right)

\* the update a node returns after `messages.append(AIMessage(...))`.
\* The list the node was given is the channel's own list when the runtime
\* hands it over without copying (shared): the reducer then sees the new
\* message on both sides, as one object.
ReduceAppended(channel, ai, shared) ==
    IF shared
    THEN MergeInto(AssignIds(Append(channel, ai), MaxId(channel)),
                   AssignIds(Append(channel, ai), MaxId(channel)))
    ELSE add_messages(channel, Append(channel, ai))

\* the `for msg in messages` loop of process
LlmMessages(system_prompt, messages) ==
    <<[role |-> "system", content |-> system_prompt]>>
    \o [i \in 1..Len(messages) |->
          [role |-> IF messages[i].type = "human" THEN "user"
                    ELSE "assistant",
           content |-> messages[i].content]]

\* what get_llm() and llm.invoke do in one turn
ChatResponses == {S("ok")}

ChatOutcomes ==
    {[kind |-> "no_llm", content |-> <<>>],
     [kind |-> "llm_raises", content |-> <<>>]}
    \cup {[kind |-> "ok", content |-> c] : c \in ChatResponses}

\* ChatbotNode.system_prompt (its first line)
ChatbotPrompt == S("You are a helpful and intelligent AI assistant.")

\* graph.invoke(state) on the graph with the one node `process`, started
\* with the channel value add_messages([], state["messages"])
InvokeProcess(system_prompt, channel, outcome, shared) ==
    IF channel = <<>>
    THEN [raised |-> FALSE, messages |-> channel, llm_messages |-> Nothing]
    ELSE IF outcome.kind = "llm_raises"
    THEN [raised |-> TRUE, messages |-> channel,
          llm_messages |-> Some(LlmMessages(system_prompt, channel))]
    ELSE [raised |-> FALSE,
          messages |->
              ReduceAppended(channel, AIMessage(outcome.content), shared),
          llm_messages |-> Some(LlmMessages(system_prompt, channel))]

(***************************************************************************)
(* ContentProcessor.process_content_list.  process_file and process_url    *)
(* catch what their reads raise and return a text in either case; a file   *)
(* or URL stands here with the text they return for it.                    *)
(***************************************************************************)
RECURSIVE FileSections(_)
FileSections(files) ==
    IF files = <<>> THEN <<>>
    ELSE S("\n--- File: ") \o Head(files).name \o S(" ---\n")
         \o Head(files).content \o S("\n") \o FileSections(Tail(files))

RECURSIVE UrlSections(_)
UrlSections(urls) ==
    IF urls = <<>> THEN <<>>
    ELSE S("\n--- URL: ") \o Head(urls).url \o S(" ---\n")
         \o Head(urls).content \o S("\n") \o UrlSections(Tail(urls))

process_content_list(files, urls) == FileSections(files) \o UrlSections(urls)

\* st.session_state["chat_files"] and ["chat_url"] as the sidebar widgets
\* left them, each with the text read from it
ChatFiles == {<<>>, <<[name |-> S("f"), content |-> S("T")]>>}

ChatUrls == {<<>>, <<[url |-> S("h://a"), content |-> S("W")]>>}

\* chatbot_ui.py 75-82
ExtractedContext(uploaded_files, url_input) ==
    IF uploaded_files # <<>> \/ url_input # <<>>
    THEN process_content_list(uploaded_files, url_input)
    ELSE <<>>

(***************************************************************************)
(* ui/chatbot_ui.py                                                        *)
(***************************************************************************)
ChatInputs == {S("hi")}

\* list.pop()
Pop(s) == SubSeq(s, 1, Len(s) - 1)

\* `page_state[...] = ...` followed by
\* update_module_state(module_name, page_state)
Store(ms, module_name, page_state) ==
    update_module_state(SetItem(ms, module_name, page_state), module_name,
                        page_state)

\* chatbot_ui.py 24-26: the page's dict
ChatbotState(ms) ==
    SetDefault(get_module_state(ms, "chatbot"), "messages", <<>>)

\* the state chatbot_ui.py gives to graph.invoke
ChatbotInput(messages, extracted_context, uploaded_files) ==
    [messages |-> messages, extracted_context |-> extracted_context,
     uploaded_files |->
         [i \in 1..Len(uploaded_files) |-> uploaded_files[i].name]]

\* ChatbotNode.process under graph.invoke; get_llm() raising comes first
chatbot_invoke(chat_state, outcome, shared) ==
    IF outcome.kind = "no_llm"
    THEN [raised |-> TRUE, messages |-> chat_state.messages,
          llm_messages |-> Nothing]
    ELSE InvokeProcess(ChatbotPrompt, add_messages(<<>>, chat_state.messages),
                       outcome, shared)

\* ChatbotAnswered with an except branch that keeps the user's message
ChatbotAnsweredNoPop(ms, chatbot_state, r) ==
    IF r.raised
    THEN Store(ms, "chatbot", chatbot_state)
    ELSE Store(ms, "chatbot", DictSet(chatbot_state, "messages", r.messages))

\* chatbot_ui.py 91-93 when the try block went through, 108-112 when not
ChatbotAnswered(ms, chatbot_state, r) ==
    IF r.raised
    THEN Store(ms, "chatbot",
               DictSet(chatbot_state, "messages",
                       Pop(DictGet(chatbot_state, "messages"))))
    ELSE Store(ms, "chatbot", DictSet(chatbot_state, "messages", r.messages))

\* chatbot_ui.py 57-113 with the user message appended and stored
ChatbotRespond(ms, chatbot_state, before, user_input, context, r) ==
    /\ module_states' = ChatbotAnswered(ms, chatbot_state, r).module_states
    /\ last_run' =
          [Run("chatbot", "turn") EXCEPT
              !.display = IF r.raised THEN "error" ELSE "result",
              !.raised = r.raised,
              !.before = before,
              !.input = user_input,
              !.context = context,
              !.llm_messages = r.llm_messages]

\* chatbot_ui.py 47-50; the KeyError of update_module_state leaves
\* render_chatbot_ui and is shown by render_module
ChatbotSubmit(ms, st, before, user_input, files, url, outcome, shared) ==
    IF Store(ms, "chatbot", st).raised
    THEN /\ module_states' = ms
         /\ last_run' =
               [Run("chatbot", "turn") EXCEPT
                   !.display = "error", !.before = before,
                   !.input = user_input]
    ELSE ChatbotRespond(
             Store(ms, "chatbot", st).module_states,
             st, before, user_input,
             IF outcome.kind = "no_llm" THEN <<>>
             ELSE ExtractedContext(files, url),
             chatbot_invoke(
                 ChatbotInput(DictGet(st, "messages"),
                              ExtractedContext(files, url),
                              files),
                 outcome, shared))

\* the user submits a message on the chatbot page
ChatbotTurn ==
    /\ Len(DictGet(ChatbotState(module_states), "messages")) < 2 * MaxTurns
    /\ \E user_input \in ChatInputs, uploaded_files \in ChatFiles,
          url_input \in ChatUrls, outcome \in ChatOutcomes,
          shared \in BOOLEAN :
          ChatbotSubmit(
              module_states,
              DictSet(ChatbotState(module_states), "messages",
                      Append(DictGet(ChatbotState(module_states), "messages"),
                             HumanMessage(user_input))),
              DictGet(ChatbotState(module_states), "messages"),
              user_input, uploaded_files, url_input, outcome, shared)
    /\ UNCHANGED settings
    /\ UNCHANGED nonSessionVars

\* the chatbot page is opened or rerun with no event
ChatbotView ==
    /\ module_states' =
          SetItem(module_states, "chatbot", ChatbotState(module_states))
    /\ last_run' = Run("chatbot", "view")
    /\ UNCHANGED settings
    /\ UNCHANGED nonSessionVars

\* "Clear Chat History" in the chatbot sidebar
ChatbotClear ==
    /\ module_states' =
          Store(module_states, "chatbot",
                DictSet(ChatbotState(module_states), "messages", <<>>))
             .module_states
    /\ last_run' = Run("chatbot", "clear")
    /\ UNCHANGED settings
    /\ UNCHANGED nonSessionVars

(***************************************************************************)
(* ui/web_chatbot_ui.py and agents/web_chatbot.py                          *)
(***************************************************************************)
\* what WebSearchNode.search returns: it catches what the client raises
\* and returns [] then, and when there is no client
WebSearches ==
    {<<>>,
     <<[title |-> S("t"), url |-> S("h://a"), snippet |-> S("s"),
        source |-> <<>>]>>}

\* web_chatbot.py 76-80
RECURSIVE SearchContext(_, _)
SearchContext(search_results, i) ==
    IF i > Len(search_results) THEN <<>>
    ELSE IntToStr(i) \o S(". ") \o search_results[i].title \o S("\n   ")
         \o search_results[i].snippet \o S("\n   Source: ")
         \o search_results[i].source \o S("\n\n")
         \o SearchContext(search_results, i + 1)

\* web_chatbot.py 83-89 (the first line of the prompt, and its last)
WebPrompt(search_results) ==
    S("You are a helpful AI assistant with access to web search results.")
    \o (IF search_results # <<>>
        THEN S("\n\nWeb Search Results:\n") \o SearchContext(search_results, 1)
        ELSE S("No web search results available."))

\* the page's dict, web_chatbot_ui.py 27-33
WebChatbotState(ms, use_web_search) ==
    DictSet(SetDefault(SetDefault(get_module_state(ms, "web_chatbot"),
                                  "messages", <<>>),
                       "search_results", <<>>),
            "use_web_search", use_web_search)

\* WebSearchNode.process under graph.invoke: the search comes before the
\* prompt, and the node writes its result into the state it returns
web_chatbot_invoke(chat_state, found, outcome, shared) ==
    IF outcome.kind = "no_llm"
    THEN [raised |-> TRUE, messages |-> chat_state.messages,
          llm_messages |-> Nothing, search_results |-> chat_state.search_results]
    ELSE [search_results |->
              IF chat_state.messages # <<>> /\ chat_state.use_web_search THEN found
              ELSE chat_state.search_results]
         @@ InvokeProcess(
                WebPrompt(IF chat_state.use_web_search THEN found ELSE <<>>),
                add_messages(<<>>, chat_state.messages), outcome, shared)

\* web_chatbot_ui.py 77-79 when the try block went through, 104-108 when not
WebChatbotAnswered(ms, web_chatbot_state, r) ==
    IF r.raised
    THEN Store(ms, "web_chatbot",
               DictSet(web_chatbot_state, "messages",
                       Pop(DictGet(web_chatbot_state, "messages"))))
    ELSE Store(ms, "web_chatbot",
               DictSet(DictSet(web_chatbot_state, "messages", r.messages),
                       "search_results", r.search_results))

WebChatbotRespond(ms, web_chatbot_state, before, user_input, r) ==
    /\ module_states' =
          WebChatbotAnswered(ms, web_chatbot_state, r).module_states
    /\ last_run' =
          [Run("web_chatbot", "turn") EXCEPT
              !.display = IF r.raised THEN "error" ELSE "result",
              !.raised = r.raised,
              !.before = before,
              !.input = user_input,
              !.llm_messages = r.llm_messages]

\* web_chatbot_ui.py 54-109
WebChatbotSubmit(ms, st, before, user_input, found, outcome, shared) ==
    IF Store(ms, "web_chatbot", st).raised
    THEN /\ module_states' = ms
         /\ last_run' =
               [Run("web_chatbot", "turn") EXCEPT
                   !.display = "error", !.before = before,
                   !.input = user_input]
    ELSE WebChatbotRespond(
             Store(ms, "web_chatbot", st).module_states,
             st, before, user_input,
             web_chatbot_invoke(
                 [messages |-> DictGet(st, "messages"),
                  search_results |->
                      DictGet(st, "search_results"),
                  use_web_search |->
                      DictGet(st, "use_web_search")],
                 found, outcome, shared))

\* the user submits a message on the web chatbot page
WebChatbotTurn ==
    /\ \E use_web_search \in BOOLEAN, user_input \in ChatInputs,
          found \in WebSearches, outcome \in ChatOutcomes,
          shared \in BOOLEAN :
          /\ Len(DictGet(WebChatbotState(module_states, use_web_search),
                         "messages")) < 2 * MaxTurns
          /\ WebChatbotSubmit(
                 module_states,
                 DictSet(WebChatbotState(module_states, use_web_search),
                         "messages",
                         Append(DictGet(WebChatbotState(module_states,
                                                        use_web_search),
                                        "messages"),
                                HumanMessage(user_input))),
                 DictGet(WebChatbotState(module_states, use_web_search),
                         "messages"),
                 user_input, found, outcome, shared)
    /\ UNCHANGED settings
    /\ UNCHANGED nonSessionVars

\* the web chatbot page is opened or rerun with no event
WebChatbotView ==
    /\ \E use_web_search \in BOOLEAN :
          module_states' =
              SetItem(module_states, "web_chatbot",
                      WebChatbotState(module_states, use_web_search))
    /\ last_run' = Run("web_chatbot", "view")
    /\ UNCHANGED settings
    /\ UNCHANGED nonSessionVars

\* "Clear Chat History" in the web chatbot sidebar
WebChatbotClear ==
    /\ \E use_web_search \in BOOLEAN :
          module_states' =
              Store(module_states, "web_chatbot",
                    DictSet(DictSet(WebChatbotState(module_states,
                                                    use_web_search),
                                    "messages", <<>>),
                            "search_results", <<>>)).module_states
    /\ last_run' = Run("web_chatbot", "clear")
    /\ UNCHANGED settings
    /\ UNCHANGED nonSessionVars

(***************************************************************************)
(* The pages that run a graph once per click and keep its result.          *)
(***************************************************************************)
\* `module_state[key] = value` on the dict get_module_state returned,
\* followed by update_module_state(module_name, module_state)
SaveResult(ms, module_name, key, value) ==
    Store(ms, module_name,
          DictSet(get_module_state(ms, module_name), key, value))

\* what the run shows: the handlers catch what the try block raises and
\* show it with display_error
Shown(saved) == IF saved.raised THEN "error" ELSE "result"

\* the final states of the research Q&A graph, as the page reads them:
\* answer_question sets answer or error, an earlier step may have set
\* error too, and llm.invoke may return an empty text
QaResults ==
    {r \in [answer : {None, <<>>, S("A")}, error : {None, S("E")},
            citations : {<<>>, <<1>>}] :
        r.answer # None \/ r.error # None}

\* graph.invoke returned r, or get_llm() raised
QaOutcomes == {Nothing} \cup {Some(r) : r \in QaResults}

\* research_qa_ui.py 98-102
ResearchSaved(ms, result) ==
    Store(ms, "research_qa",
          DictSet(DictSet(get_module_state(ms, "research_qa"),
                          "last_answer", result.answer),
                  "last_citations", result.citations))

\* research_qa_ui.py 57-171: [module_states, display]
research_qa_run(ms, question, urls, outcome) ==
    IF question = <<>> \/ urls = <<>> \/ outcome = Nothing
    THEN [module_states |-> ms, display |-> "error"]
    ELSE IF The(outcome).error \notin {None, <<>>}
    THEN [module_states |-> ms, display |-> "error"]
    ELSE IF The(outcome).answer \in {None, <<>>}
    THEN [module_states |-> ms, display |-> "error"]
    ELSE [module_states |-> ResearchSaved(ms, The(outcome)).module_states,
          display |-> Shown(ResearchSaved(ms, The(outcome)))]

QaQuestionInputs == {<<>>, S("q")}

QaUrlInputs == {<<>>, <<S("h://a")>>}

\* "Get Answer" on the research Q&A page
ResearchQaRun ==
    /\ \E question \in QaQuestionInputs, urls \in QaUrlInputs,
          outcome \in QaOutcomes :
          /\ module_states' =
                research_qa_run(module_states, question, urls, outcome)
                   .module_states
          /\ last_run' =
                [Run("research_qa", "run") EXCEPT
                    !.display =
                        research_qa_run(module_states, question, urls,
                                        outcome).display,
                    !.raised = outcome = Nothing,
                    !.result =
                        IF question = <<>> \/ urls = <<>> THEN Nothing
                        ELSE outcome,
                    !.input = question]
    /\ UNCHANGED settings
    /\ UNCHANGED nonSessionVars

\* the final states of the report graph, as the page reads them:
\* generate_report sets report or error, and load_urls may have set error
ReportResults ==
    {r \in [report : {Nothing, Some(S("R"))}, error : {None, S("E")}] :
        r.report # Nothing \/ r.error # None}

\* graph.invoke returned r; or it raised, or get_llm() did
ReportOutcomes == {Nothing} \cup {Some(r) : r \in ReportResults}

\* report_generator_ui.py 101-203: [module_states, display]
report_generator_run(ms, title, topic, query, outcome) ==
    IF title = <<>> \/ (topic = <<>> /\ query = <<>>) \/ outcome = Nothing
    THEN [module_states |-> ms, display |-> "error"]
    ELSE IF The(outcome).error \notin {None, <<>>}
    THEN [module_states |-> ms, display |-> "error"]
    ELSE IF The(outcome).report = Nothing
    THEN [module_states |-> ms, display |-> "none"]
    ELSE [module_states |->
              SaveResult(ms, "report_generator", "generated_report",
                         The(The(outcome).report)).module_states,
          display |->
              Shown(SaveResult(ms, "report_generator", "generated_report",
                               The(The(outcome).report)))]

ReportTitleInputs == {<<>>, S("T")}

ReportTopicInputs == {<<>>, S("p")}

\* "Generate Report" on the report page
ReportRun ==
    /\ \E title \in ReportTitleInputs, topic \in ReportTopicInputs,
          query \in QaQuestionInputs, outcome \in ReportOutcomes :
          /\ module_states' =
                report_generator_run(module_states, title, topic, query,
                                     outcome).module_states
          /\ last_run' =
                [Run("report_generator", "run") EXCEPT
                    !.display =
                        report_generator_run(module_states, title, topic,
                                             query, outcome).display,
                    !.raised = outcome = Nothing,
                    !.result =
                        IF title = <<>> \/ (topic = <<>> /\ query = <<>>)
                        THEN Nothing ELSE outcome,
                    !.input = title]
    /\ UNCHANGED settings
    /\ UNCHANGED nonSessionVars

\* "Generate News Briefing": news_generator_ui.py 59-86 saves whatever the
\* graph returned; a raise in the try block is shown as an error
NewsRun ==
    /\ \E outcome \in {Nothing, Some(S("N"))} :
          /\ module_states' =
                IF outcome = Nothing THEN module_states
                ELSE SaveResult(module_states, "news_generator",
                                "latest_briefing", The(outcome)).module_states
          /\ last_run' =
                [Run("news_generator", "run") EXCEPT
                    !.display =
                        IF outcome = Nothing THEN "error"
                        ELSE Shown(SaveResult(module_states,
                                              "news_generator",
                                              "latest_briefing",
                                              The(outcome))),
                    !.raised = outcome = Nothing]
    /\ UNCHANGED settings
    /\ UNCHANGED nonSessionVars

\* "Generate Blog": blog_generator_ui.py 44-72 saves the blog when the graph
\* returned one
BlogRun ==
    /\ \E topic \in ReportTopicInputs, outcome \in {Nothing, Some(S("B"))} :
          /\ module_states' =
                IF topic = <<>> \/ outcome = Nothing THEN module_states
                ELSE SaveResult(module_states, "blog_generator",
                                "generated_blog", The(outcome)).module_states
          /\ last_run' =
                [Run("blog_generator", "run") EXCEPT
                    !.display =
                        IF topic = <<>> \/ outcome = Nothing THEN "error"
                        ELSE Shown(SaveResult(module_states,
                                              "blog_generator",
                                              "generated_blog",
                                              The(outcome))),
                    !.input = topic]
    /\ UNCHANGED settings
    /\ UNCHANGED nonSessionVars

(***************************************************************************)
(* ui/settings_ui.py                                                       *)
(***************************************************************************)
\* the values the temperature slider is moved to, in tenths
Temperatures == {7, 10}

\* update_setting(key, value)
update_setting(st, key, value) == DictSet(st, key, value)

\* the settings page is rendered with the slider at `temperature`; the
\* other widgets hand back the value they were given
SettingsView ==
    /\ \E temperature \in Temperatures :
          settings' = update_setting(settings, "temperature", temperature)
    /\ last_run' = Run("settings", "view")
    /\ UNCHANGED module_states
    /\ UNCHANGED nonSessionVars

\* the dict literal of settings_ui.py 143-148
ClearedModuleStates == [i \in 1..4 |-> <<Modules[i], <<>>>>]

\* "Clear All Chat History"
ClearAllChatHistory ==
    /\ module_states' = ClearedModuleStates
    /\ last_run' = Run("settings", "clear_all")
    /\ UNCHANGED settings
    /\ UNCHANGED nonSessionVars

\* "Reset Settings to Default"
ResetSettings ==
    /\ settings' = DefaultSettings
    /\ last_run' = Run("settings", "reset_settings")
    /\ UNCHANGED module_states
    /\ UNCHANGED nonSessionVars

\* a caller invokes clear_module_state(module_name)
ClearModuleState ==
    /\ \E i \in 1..Len(Modules) :
          module_states' = clear_module_state(module_states, Modules[i])
    /\ last_run' = Run("none", "clear_module_state")
    /\ UNCHANGED settings
    /\ UNCHANGED nonSessionVars

\* the pages that keep a result, the settings page and the helpers; the
\* turns of the two chat pages are followed under SpecChat
SessionNext ==
    \/ ChatbotView
    \/ ChatbotClear
    \/ WebChatbotView
    \/ WebChatbotClear
    \/ ResearchQaRun
    \/ ReportRun
    \/ NewsRun
    \/ BlogRun
    \/ SettingsView
    \/ ClearAllChatHistory
    \/ ResetSettings
    \/ ClearModuleState

\* the app is opened: initialize_app() has run, no graph is compiled
SpecSessionInit ==
    /\ CiteInit /\ SplitterInit /\ SessionInit
    /\ ChunkIdle /\ LoadIdle /\ QaIdle /\ ReportIdle
    /\ invocations = 0

SpecSession == SpecSessionInit /\ [][SessionNext]_vars

\* the two chat pages, and every operation that writes their stored state
ChatNext ==
    \/ ChatbotView
    \/ ChatbotTurn
    \/ ChatbotClear
    \/ WebChatbotView
    \/ WebChatbotTurn
    \/ WebChatbotClear
    \/ ClearAllChatHistory
    \/ ClearModuleState

SpecChat == SpecSessionInit /\ [][ChatNext]_vars

(***************************************************************************)
(* Claims about CitationEngine, checked under SpecCite.                    *)
(***************************************************************************)
IsPrefix(s, t) == Len(s) <= Len(t) /\ SubSeq(t, 1, Len(s)) = s

\* position in call_log of the first call made with the url of call k
FirstCall(k) ==
    CHOOSE f \in 1..k :
        /\ call_log[f].url = call_log[k].url
        /\ \A g \in 1..(f - 1) : call_log[g].url # call_log[k].url

\* the citation list as it was when call k returned
AfterCall(k) ==
    IF k < Len(call_log) THEN call_log[k + 1].before ELSE citations

\* C1: add_citation deduplicates by URL: the list holds exactly one entry per
\* distinct URL added, the entry carries the title, excerpt and accessed_date
\* of the first call made with that URL, and every later call with the URL
\* returns the index of the first call and leaves the list as it was.
C1_DedupByUrl ==
    /\ \A i, j \in 1..Len(citations) :
          citations[i].url = citations[j].url => i = j
    /\ {citations[i].url : i \in 1..Len(citations)}
          = {call_log[k].url : k \in 1..Len(call_log)}
    /\ \A k \in 1..Len(call_log) :
          LET f == FirstCall(k) IN
          /\ call_log[k].ret = call_log[f].ret
          /\ k > f => AfterCall(k) = call_log[k].before
          /\ \E i \in 1..Len(citations) :
                /\ citations[i].url = call_log[k].url
                /\ citations[i].title = call_log[f].title
                /\ citations[i].excerpt = call_log[f].excerpt
                /\ citations[i].accessed_date = call_log[f].accessed_date
                /\ citations[i].index = call_log[k].ret

\* C1 witness: a URL was added a second time with another title, excerpt and
\* date than the first time.
C1_Witness ==
    \E k \in 1..Len(call_log) :
        LET f == FirstCall(k) IN
        /\ k > f
        /\ call_log[k].title # call_log[f].title
        /\ call_log[k].excerpt # call_log[f].excerpt
        /\ call_log[k].accessed_date # call_log[f].accessed_date

\* C2: citation indices are stable and incrementing: the i-th citation has
\* index i, citations stand in first-seen order, a citation once added is
\* never changed by a later add_citation, and the first add_citation after
\* reset (or construction) returns 1.
C2_IndicesStable ==
    /\ \A i \in 1..Len(citations) : citations[i].index = i
    /\ \A k \in 1..Len(call_log) :
          /\ IsPrefix(call_log[k].before, citations)
          /\ call_log[k].ret \in 1..Len(AfterCall(k))
          /\ AfterCall(k)[call_log[k].ret].url = call_log[k].url
          /\ \A g \in 1..k :
                FirstCall(g) < FirstCall(k) => call_log[g].ret < call_log[k].ret
    /\ call_log # <<>> => call_log[1].ret = 1 /\ call_log[1].before = <<>>

\* C2 witness: after a reset, two different URLs were added and the first of
\* them was added again.
C2_Witness ==
    /\ was_reset
    /\ Len(citations) = 2
    /\ Len(call_log) = 3
    /\ call_log[3].url = call_log[1].url

(***************************************************************************)
(* Claims about WebLoader.chunk_text, checked under SpecChunk.             *)
(***************************************************************************)
CeilDiv(a, b) == (a + b - 1) \div b

\* the number of chunks the specification gives for a text of length L
ChunkCountFormula(L, W, O) == IF L > W THEN CeilDiv(L - O, W - O) ELSE 1

NoWhitespace(text) == \A i \in 1..Len(text) : ~IsSpace(text[i])

\* C7 as stated: chunk_text returns ceil((L-O)/(W-O)) chunks when L > W and
\* one chunk when 0 < L <= W, for every text, also one with separators.
C7_CountForEveryText ==
    (chunk_out # Nothing /\ Len(text_in) > 0)
        => Len(The(chunk_out))
             = ChunkCountFormula(Len(text_in), chunk_size, chunk_overlap)

\* C7 amended: for a text that holds no whitespace character, and so none
\* of the separators, and 0 <= O < W, chunk_text returns ceil((L-O)/(W-O))
\* chunks when L > W and one chunk when 0 < L <= W.
C7_CountWithoutSeparators ==
    (chunk_out # Nothing /\ Len(text_in) > 0 /\ NoWhitespace(text_in))
        => Len(The(chunk_out))
             = ChunkCountFormula(Len(text_in), chunk_size, chunk_overlap)

\* C7 witness: a text without whitespace, longer than the window, was cut
\* into three or more overlapping chunks.
C7_Witness ==
    /\ chunk_out # Nothing
    /\ NoWhitespace(text_in)
    /\ Len(text_in) > chunk_size
    /\ chunk_overlap > 0
    /\ Len(The(chunk_out)) >= 3

(***************************************************************************)
(* Claims about WebLoader.load_urls, checked under SpecLoad.               *)
(***************************************************************************)
LoadedAfter(k) ==
    IF k < Len(fetch_log) THEN fetch_log[k + 1].loaded_before
    ELSE loaded_content

ChunksAfter(k) ==
    IF k < Len(fetch_log) THEN fetch_log[k + 1].chunks_before ELSE all_chunks

\* the request of this attempt failed
FetchFailed(e) == e.outcome.kind = "raise"

\* the attempt fetched a document that parses to non-empty text
ParsesToText(e) ==
    /\ e.outcome.kind = "ok"
    /\ parse_html(e.outcome.html, e.url).text # <<>>

\* C3: a URL that cannot be retrieved never fails the batch: fetch_url
\* returns None for it, load_urls does not raise, the failed attempt adds no
\* loaded_content entry and no chunk, and every URL that fetched and parsed
\* to non-empty text is in loaded_content, whatever failed before or after.
C3_BatchSurvivesFailures ==
    /\ lpc # "raised"
    /\ \A k \in 1..Len(fetch_log) :
          /\ FetchFailed(fetch_log[k]) =>
                /\ fetch_log[k].html = Nothing
                /\ LoadedAfter(k) = fetch_log[k].loaded_before
                /\ ChunksAfter(k) = fetch_log[k].chunks_before
          /\ ParsesToText(fetch_log[k]) =>
                DictHas(loaded_content, fetch_log[k].url)

\* C3 witness: load_urls returned after a failed fetch that stood between
\* two successful loads of different URLs.
C3_Witness ==
    /\ lpc = "done"
    /\ Len(fetch_log) = 3
    /\ ParsesToText(fetch_log[1])
    /\ FetchFailed(fetch_log[2])
    /\ ParsesToText(fetch_log[3])
    /\ fetch_log[1].url # fetch_log[3].url
    /\ Len(loaded_content) = 2

\* the entry is s with whitespace only before and after it
IsStripOf(s, entry) ==
    /\ s # <<>>
    /\ ~IsSpace(s[1])
    /\ ~IsSpace(s[Len(s)])
    /\ \E i \in 1..Len(entry) :
          /\ StartsAt(entry, s, i)
          /\ \A j \in 1..Len(entry) :
                (j < i \/ j >= i + Len(s)) => IsSpace(entry[j])

\* C10: load_urls does not retry: every non-blank entry the loop has passed
\* caused exactly one fetch attempt, on the stripped URL, a blank or
\* whitespace-only entry caused none, attempts follow the order of the list,
\* and after a failed attempt the loop has moved on.
C10_NoRetry ==
    /\ lpc \in {"loop", "done"}
    /\ \A k \in 1..Len(fetch_log) :
          /\ fetch_log[k].pos < pos
          /\ IsStripOf(fetch_log[k].url, in_urls[fetch_log[k].pos])
          /\ \A j \in 1..(k - 1) : fetch_log[j].pos < fetch_log[k].pos
    /\ \A p \in 1..Min(pos - 1, Len(in_urls)) :
          (\E k \in 1..Len(fetch_log) : fetch_log[k].pos = p)
              <=> (\E i \in 1..Len(in_urls[p]) : ~IsSpace(in_urls[p][i]))

\* C10 witness: load_urls returned; the list held a whitespace-only entry,
\* and a fetch of an entry with surrounding whitespace failed and was
\* followed by the fetch of the next entry.
C10_Witness ==
    /\ lpc = "done"
    /\ \E p \in 1..Len(in_urls) : in_urls[p] = S(" ")
    /\ \E k \in 1..(Len(fetch_log) - 1) :
          /\ FetchFailed(fetch_log[k])
          /\ in_urls[fetch_log[k].pos] # fetch_log[k].url

(***************************************************************************)
(* Claims about retrieve_relevant_info, checked under SpecRetrieve.        *)
(***************************************************************************)
\* retrieve_relevant_info has ranked the chunks
Ranked == qa_pc = "answer_question" /\ state.retrieved_chunks # Nothing

Retrieved == The(state.retrieved_chunks)

\* the place in the input list of a chunk of the one source
InputPos(chunk) == chunk.chunk_index + 1

ScoreAt(p) == scored_chunks[p].score

\* chunk at input position p goes before the one at q: a higher score, or
\* the same score and an earlier place in the input
RanksBefore(p, q) ==
    \/ ScoreGreater(ScoreAt(p), ScoreAt(q))
    \/ ScoreEqual(ScoreAt(p), ScoreAt(q)) /\ p < q

RetrievedPos == {InputPos(Retrieved[i]) : i \in 1..Len(Retrieved)}

\* C4: the ranking is deterministic and stable: the score of a chunk does
\* not depend on the order in which the question words are iterated, the
\* retrieved chunks stand by falling score with equal scores in input order,
\* and the chunks left out all rank after the ones returned, so the result
\* is a function of the question and the chunk list.
C4_RankingStable ==
    Ranked =>
        /\ Len(scored_chunks) = Len(The(state.chunks))
        /\ \A p \in 1..Len(scored_chunks) :
              /\ scored_chunks[p].chunk = The(state.chunks)[p]
              /\ \A order \in Orders(question_words(state.question)) :
                    Score(order, The(state.chunks)[p]) = ScoreAt(p)
        /\ \A i \in 1..Len(Retrieved) :
              Retrieved[i] = The(state.chunks)[InputPos(Retrieved[i])]
        /\ \A i, j \in 1..Len(Retrieved) :
              i < j => RanksBefore(InputPos(Retrieved[i]), InputPos(Retrieved[j]))
        /\ \A p \in RetrievedPos, q \in 1..Len(scored_chunks) :
              q \notin RetrievedPos => RanksBefore(p, q)

\* C4 witness: six chunks were ranked for a question of two words, five
\* were returned, and two returned chunks have the same score.
C4_Witness ==
    /\ Ranked
    /\ Len(scored_chunks) > TopK
    /\ Cardinality(question_words(state.question)) = 2
    /\ \E i, j \in 1..Len(Retrieved) :
          /\ i < j
          /\ ScoreEqual(ScoreAt(InputPos(Retrieved[i])),
                        ScoreAt(InputPos(Retrieved[j])))
    /\ \E i, j \in 1..Len(Retrieved) :
          ScoreGreater(ScoreAt(InputPos(Retrieved[i])),
                       ScoreAt(InputPos(Retrieved[j])))

\* the chunk has a word that is a word of the question, case ignored
SharesWord(question, chunk) ==
    question_words(question) \cap WordSet(lower(chunk.content)) # {}

\* C5: the top 5 by score are returned: min(5, n) chunks, by non-increasing
\* score, none left out scores strictly more than one returned, and a chunk
\* sharing a question word is ranked above a chunk sharing none.
C5_TopFiveByWordOverlap ==
    Ranked =>
        /\ Len(Retrieved) = Min(TopK, Len(The(state.chunks)))
        /\ \A i, j \in 1..Len(Retrieved) :
              i < j => ~ScoreGreater(ScoreAt(InputPos(Retrieved[j])),
                                     ScoreAt(InputPos(Retrieved[i])))
        /\ \A p \in RetrievedPos, q \in 1..Len(scored_chunks) :
              q \notin RetrievedPos => ~ScoreGreater(ScoreAt(q), ScoreAt(p))
        /\ \A j \in 1..Len(Retrieved), q \in 1..Len(scored_chunks) :
              (/\ SharesWord(state.question, The(state.chunks)[q])
               /\ ~SharesWord(state.question, Retrieved[j]))
                  => \E i \in 1..(j - 1) : InputPos(Retrieved[i]) = q

\* C6: the score of a chunk is the number of distinct question words that
\* are words of the chunk's content, divided by the number of distinct
\* question words; a question word inside a longer word does not count.
C6_ScoreIsWordOverlap ==
    Ranked =>
        \A p \in 1..Len(scored_chunks) :
            LET words == question_words(state.question)
                shared == words \cap WordSet(lower(The(state.chunks)[p].content))
            IN words # {} =>
                  ScoreEqual(ScoreAt(p),
                             [num |-> Cardinality(shared),
                              den |-> Cardinality(words)])

(***************************************************************************)
(* Claims about the research Q&A graph, checked under SpecQA.              *)
(***************************************************************************)
\* load_urls has run and left no chunk
LoaderGaveNothing == qa_pc # "load_urls" /\ Falsy(state.chunks)

\* C8: when the loader returns no chunk, retrieved_chunks is never
\* populated, the LLM is never invoked, answer stays None, and the final
\* state has a non-empty error.
C8_NoContentIsAnError ==
    LoaderGaveNothing =>
        /\ state.retrieved_chunks = Nothing
        /\ state.answer = None
        /\ llm_calls = 0
        /\ qa_pc = "end" => (state.error # None /\ state.error # <<>>)

\* C8 witness: a run with a question and URLs ended after the loader had
\* returned an empty chunk list.
C8_Witness ==
    /\ qa_pc = "end"
    /\ state.question # <<>>
    /\ Len(state.urls) = 2
    /\ state.chunks = Some(<<>>)

(***************************************************************************)
(* Claims about the report graph, checked under SpecReport.                *)
(***************************************************************************)
\* C9: when a non-empty URL list was given and no URL yielded content, the
\* error of the final state is a non-empty message.
C9_NoContentSetsError ==
    (/\ report_pc = "end"
     /\ report_state.urls # <<>>
     /\ SourcesOf(report_state) = <<>>)
        => (report_state.error # None /\ report_state.error # <<>>)

(***************************************************************************)
(* Claims about the order of the Q&A graph, checked under SpecQALive.      *)
(***************************************************************************)
QaOrder ==
    <<"load_urls", "chunk_content", "retrieve_relevant_info",
      "answer_question", "generate_citations", "end">>

QaFollows(from, to) ==
    \E i \in 1..(Len(QaOrder) - 1) : from = QaOrder[i] /\ to = QaOrder[i + 1]

\* C11: every step of one invocation leaves a node for the next one of
\* load_urls, chunk_content, retrieve_relevant_info, answer_question,
\* generate_citations, END, so each runs once and in this order, whatever
\* error a node recorded, and the invocation reaches END.
C11_FiveStepsInOrder ==
    /\ [][QaFollows(qa_pc, qa_pc')]_vars
    /\ <>(qa_pc = "end")

\* the end is reached by a run in which load_urls recorded an error
C11_Witness ==
    /\ qa_pc = "end"
    /\ state.urls = <<>>
    /\ state.error # None

(***************************************************************************)
(* Claims about the chunks of WebLoader.load_urls, checked under SpecLoad. *)
(***************************************************************************)
\* the loaded_content entry of a URL, as it stands after attempt k
EntryAfter(k, url) ==
    LoadedAfter(k)[CHOOSE i \in 1..Len(LoadedAfter(k)) :
                      LoadedAfter(k)[i][1] = url][2]

\* the chunks that attempt k appended
ChunksAddedBy(k) ==
    SubSeq(ChunksAfter(k), Len(fetch_log[k].chunks_before) + 1,
           Len(ChunksAfter(k)))

\* the pieces occur in the text one after the other, from place `from` on
RECURSIVE InTextOrder(_, _, _)
InTextOrder(text, pieces, from) ==
    \/ pieces = <<>>
    \/ \E p \in from..Len(text) :
          /\ StartsAt(text, pieces[1], p)
          /\ InTextOrder(text, Tail(pieces), p)

StrippedTags == {"script", "style", "nav", "footer"}

\* the elements of a document whose text is to be kept
KeptElements(html) == SelectSeq(html, LAMBDA e : e.tag \notin StrippedTags)

\* the line is the stripped, non-empty text line of a kept element
IsKeptLine(line, html) ==
    /\ line # <<>>
    /\ \E i \in 1..Len(KeptElements(html)) :
          \E l \in Range(SplitOn(KeptElements(html)[i].text, <<"\n">>)) :
             line = strip(l)

\* the title the claim describes: the text of the title element or, when it
\* gives none, of the first h1
TitleFrom(html, title) ==
    LET titles == SelectSeq(html, LAMBDA e : e.tag = "title" /\ e.text # <<>>)
        h1s == SelectSeq(html, LAMBDA e : e.tag = "h1")
    IN /\ title # None
       /\ titles # <<>> => title = titles[1].text
       /\ (titles = <<>> /\ h1s # <<>>) => title = h1s[1].text

ParsedAsClaimed(html, url, r) ==
    /\ r.url = url
    /\ \A line \in Range(SplitOn(r.text, <<"\n">>)) :
          r.text # <<>> => IsKeptLine(line, html)
    /\ TitleFrom(html, r.title)

\* C13: for every document fetched, the result of parse_html has the given
\* url, a text made only of non-empty lines that come from elements other
\* than script, style, nav and footer, and the title of the title element
\* or, failing that, of the first h1.
C13_ParseStripsAndTitles ==
    \A k \in 1..Len(fetch_log) :
       (fetch_log[k].outcome.kind = "ok" /\ fetch_log[k].outcome.html # <<>>)
          => ParsedAsClaimed(fetch_log[k].outcome.html, fetch_log[k].url,
                parse_html(fetch_log[k].outcome.html, fetch_log[k].url))

\* the URLs of the sources that load_urls stored
LoadedUrls(st) == {SourcesOf(st)[i][1] : i \in 1..Len(SourcesOf(st))}

\* the URLs the engine holds a citation for
CitedUrls == {citations[i].url : i \in 1..Len(citations)}

\* C14: whatever the fetches and the parser gave, a page with text and a
\* null title included, the report graph does not leave by an exception,
\* and at the end every source that loaded is cited.
C14_SourceFailuresNonFatal ==
    /\ report_pc # "raised"
    /\ report_pc = "end" => LoadedUrls(report_state) \subseteq CitedUrls

(***************************************************************************)
(* Claims about the error and the answer of the Q&A graph, checked under   *)
(* SpecQA.                                                                 *)
(***************************************************************************)
\* C15: once a step of the Q&A graph has set error, no later step
\* overwrites or clears it: the final error is the first one recorded.
C15_FirstErrorKept ==
    [][state.error # None => state'.error = state.error]_vars

\* C16: in every final state of the Q&A graph an answer and an error
\* exclude each other: when answer is set, error is not.
C16_AnswerExcludesError ==
    qa_pc = "end" => (state.answer # None => state.error = None)

\* C18: with enable_citations False no citation is added during the run
\* and the report's references are empty; with enable_citations True the
\* references hold one citation per loaded URL.
C18_EnableCitationsControls ==
    /\ ~report_state.enable_citations => citations = <<>>
    /\ (report_pc = "end" /\ report_state.report # Nothing) =>
          LET references == The(report_state.report).references
          IN IF report_state.enable_citations
             THEN /\ {references[i].url : i \in 1..Len(references)}
                        = LoadedUrls(report_state)
                  /\ Len(references) = Cardinality(LoadedUrls(report_state))
             ELSE references = <<>>

\* the search call of the run raised
SearchRaised == \E k \in 1..Len(search_log) : search_log[k].kind = "raise"

\* C19: the web search step calls the search service only when
\* enable_web_search is true and query is non-empty; when the call raised,
\* the step left error and search_results as they were, and the run goes on
\* through summarize_sources and generate_report instead of stopping.
C19_SearchIsOptional ==
    /\ search_log # <<>> =>
          /\ report_state.enable_web_search
          /\ report_state.query # <<>>
    /\ (SearchRaised /\ report_pc = "summarize_sources") =>
          /\ report_state.error = search_log[1].before.error
          /\ report_state.search_results = search_log[1].before.search_results
    /\ SearchRaised =>
          report_pc \in {"summarize_sources", "generate_report", "end"}

\* a report text of the shape the prompt asks for: the three named heading
\* lines with their bodies, and '#' heading lines with theirs in between
StructuredText(summary, intro, secs, conclusion) ==
    Join(<<S("Executive Summary"), summary, S("Introduction"), intro>>
            \o [i \in 1..(2 * Len(secs)) |->
                   IF i % 2 = 1 THEN S("# ") \o secs[(i + 1) \div 2].title
                   ELSE secs[i \div 2].content]
            \o <<S("Conclusion"), conclusion>>,
         <<"\n">>)

ReportBodies == {S("A"), S("B"), S("C"), S("D")}

ReportSectionLists ==
    {<<[title |-> S("One"), content |-> S("C")]>>,
     <<[title |-> S("One"), content |-> S("C")],
       [title |-> S("Two"), content |-> S("D")]>>}

\* C20: when the LLM returned a text made of an 'Executive Summary' line
\* with body A, an 'Introduction' line with body B, '#' heading lines with
\* their bodies and a 'Conclusion' line with body C, the stored report has
\* executive_summary A, introduction B, conclusion C and one section per
\* '#' heading, in order, with that heading's body.
C20_ParseRecoversStructure ==
    \A summary, intro, conclusion \in ReportBodies,
       secs \in ReportSectionLists :
       (/\ report_pc = "end"
        /\ report_state.report # Nothing
        /\ llm_response =
              Some([kind |-> "ok",
                    content |-> StructuredText(summary, intro, secs,
                                               conclusion)]))
          => /\ The(report_state.report).executive_summary = summary
             /\ The(report_state.report).introduction = intro
             /\ The(report_state.report).sections = secs
             /\ The(report_state.report).conclusion = conclusion

(***************************************************************************)
(* Claims about a compiled graph invoked again, checked under SpecReuse.   *)
(***************************************************************************)
\* the URLs of the chunks the run retrieved
RetrievedUrls(st) ==
    IF st.retrieved_chunks = Nothing THEN {}
    ELSE {c.metadata.url : c \in Range(The(st.retrieved_chunks))}

NumberedFromOne(cits) == \A i \in 1..Len(cits) : cits[i].index = i

\* C17: at the end of every invocation, a later one of the same compiled
\* graph included, the citations of the Q&A result, resp. the references of
\* the report, name only URLs retrieved, resp. loaded, in that invocation
\* and are numbered from 1.
C17_NoCitationLeak ==
    /\ qa_pc = "end" =>
          /\ \A i \in 1..Len(state.citations) :
                state.citations[i].url \in RetrievedUrls(state)
          /\ NumberedFromOne(state.citations)
    /\ (report_pc = "end" /\ report_state.report # Nothing) =>
          /\ \A i \in 1..Len(The(report_state.report).references) :
                The(report_state.report).references[i].url
                   \in LoadedUrls(report_state)
          /\ NumberedFromOne(The(report_state.report).references)

(***************************************************************************)
(* Claims about the session state, checked under SpecSession.              *)
(***************************************************************************)
\* C21: in every session state reached after initialize_session_state,
\* whatever pages were run and buttons pressed, module_states has an entry
\* for each of the six modules.
C21_EveryModuleHasState ==
    \A i \in 1..Len(Modules) : DictHas(module_states, Modules[i])

\* module_states[module_name][key], when both keys are there
Saved(module_name, key) ==
    IF DictHas(module_states, module_name)
          /\ DictHas(DictGet(module_states, module_name), key)
    THEN Some(DictGet(DictGet(module_states, module_name), key))
    ELSE Nothing

\* the run made last was a click on `page` whose graph returned a result
\* without an error
RanClean(page) ==
    /\ last_run.page = page
    /\ last_run.event = "run"
    /\ last_run.result # Nothing
    /\ The(last_run.result).error = None

\* C22: a research Q&A run whose graph returned an answer and no error, and
\* a report run whose graph returned a report and no error, leave the result
\* saved under the module's entry of module_states and show it, not an error
\* message.
C22_ResultStoredAndShown ==
    /\ (RanClean("research_qa") /\ The(last_run.result).answer # <<>>) =>
          /\ Saved("research_qa", "last_answer")
                = Some(The(last_run.result).answer)
          /\ last_run.display = "result"
    /\ (RanClean("report_generator")
          /\ The(last_run.result).report # Nothing) =>
          /\ Saved("report_generator", "generated_report")
                = The(last_run.result).report
          /\ last_run.display = "result"

(***************************************************************************)
(* Claims about the chat pages, checked under SpecChat.                    *)
(***************************************************************************)
\* the message history stored for a chat page
StoredMessages(module_name) ==
    IF Saved(module_name, "messages") = Nothing THEN <<>>
    ELSE The(Saved(module_name, "messages"))

\* user and assistant messages in turn, starting with the user
Alternates(msgs) ==
    /\ Len(msgs) % 2 = 0
    /\ \A i \in 1..Len(msgs) :
          msgs[i].type = IF i % 2 = 1 THEN "human" ELSE "ai"

\* stored is before, then the user's message, then one assistant message
ExtendedByTurn(stored, before, user_input) ==
    /\ Len(stored) = Len(before) + 2
    /\ SubSeq(stored, 1, Len(before)) = before
    /\ stored[Len(before) + 1].type = "human"
    /\ stored[Len(before) + 1].content = user_input
    /\ stored[Len(before) + 2].type = "ai"

\* C23: on the chatbot and the web chatbot page, a turn whose response
\* generation raised leaves the stored messages as they were before the
\* user's message was submitted, a turn that went through extends them by
\* the user's message and one assistant message, and the stored messages
\* alternate between user and assistant.
C23_TurnsAreAtomic ==
    \A page \in {"chatbot", "web_chatbot"} :
        /\ (last_run.page = page /\ last_run.event = "turn") =>
              IF last_run.raised
              THEN StoredMessages(page) = last_run.before
              ELSE ExtendedByTurn(StoredMessages(page), last_run.before,
                                  last_run.input)
        /\ Alternates(StoredMessages(page))

\* a second turn on the web chatbot page, in which llm.invoke raised
C23_Witness ==
    /\ last_run.page = "web_chatbot"
    /\ last_run.event = "turn"
    /\ last_run.raised
    /\ last_run.llm_messages # Nothing
    /\ Len(last_run.before) = 2
    /\ Len(StoredMessages("chatbot")) = 2

\* C24: in a chatbot turn with uploaded files or a URL, in which the model
\* was called, the context process_content_list extracted for the turn is
\* part of the content of one of the messages given to llm.invoke.
C24_ContextReachesModel ==
    (/\ last_run.page = "chatbot"
     /\ last_run.event = "turn"
     /\ last_run.context # <<>>
     /\ last_run.llm_messages # Nothing) =>
        \E i \in 1..Len(The(last_run.llm_messages)) :
            Contains(The(last_run.llm_messages)[i].content, last_run.context)

====
